---- MODULE Spec2Model ----
(***************************************************************************)
(* A model of py-gql: resolver middlewares (execution/middleware.py), the  *)
(* block string algorithm (lang/utils.py) and the SDL schema builder       *)
(* (schema/_schema_from_ast.py).                                           *)
(*                                                                         *)
(* The three parts do not interact. Each has its own specification         *)
(* (SpecMiddleware, SpecBlockString, SpecSchema) over its own variables;   *)
(* the variables of the other parts stay at their idle values.             *)
(***************************************************************************)
EXTENDS Integers, Sequences, FiniteSets, TLC

VARIABLES
    \* ---- execution/middleware.py
    middlewares,  \* the list handed to apply_middlewares: a sequence of kinds
    resolver,     \* what the wrapped function `func` does when called
    tail,         \* the callable apply_middlewares returned (<<>> before)
    mw_pc,        \* "idle" | "start" | "composed" | "running" | "returned"
    stack,        \* positions in `tail` of the calls in progress, outermost first
    flight,       \* the result travelling up the Python call stack
    calls,        \* ids of the callables entered, in order (func has id 0)
    handed,       \* the `next` each entered callable was given, in order
    after_runs,   \* id -> how often the code after the yield ran
    outcome,      \* id -> how the call of that middleware ended
    deferred,     \* the deferred the resolver returned: "none"|"pending"|"ok"|"failed"
    callbacks,    \* ids whose _finish is registered with add_done_callback
    ret,          \* what the call of `tail` gave its caller
    finished,     \* ids whose code after the yield ran, in the order it ran
    \* ---- lang/utils.py
    raw_string,   \* the argument of parse_block_string: a sequence of characters
    bs_pc,        \* "idle" | "call" | "done"
    bs_result,    \* the string parse_block_string returned
    \* ---- schema/_schema_from_ast.py
    document,           \* ast.definitions: the definitions of the SDL document
    sdl_pc,             \* the step schema_from_ast is at, or was at when it raised:
                        \* "idle"|"extract"|"build"|"directives"|"operation_types"|
                        \* "resolvers"|"done"
    schema_definition,  \* first pass: the schema definition, or NoNode
    type_nodes,         \* first pass: the type definitions (a dict, in insertion order)
    extension_nodes,    \* first pass: name -> the type extensions of that name
    directive_nodes,    \* first pass: the directive definitions
    builder,            \* _TypeMapBuilder: its _cache and _stack
    types,              \* builder(): the types built (a dict, in insertion order)
    directives,         \* builder.build_directives(directive_nodes)
    operation_types,    \* _operation_types(schema_definition, types)
    sdl_error,          \* the exception that left schema_from_ast, "" for none
    resolvers,          \* the argument `resolvers`: None, a dict or a callable
    known_types,        \* the argument `known_types`: the types supplied, a list
    \* ---- utilities/type_info.py
    ti_pc,                  \* "idle" | "visit" | "raised"
    ti_open,                \* the nodes entered and not yet left, outermost
                            \* first, each with the depths of the five stacks
                            \* when it was entered
    type_stack,             \* _type_stack
    parent_type_stack,      \* _parent_type_stack
    input_type_stack,       \* _input_type_stack
    field_stack,            \* _field_stack
    input_value_def_stack,  \* _input_value_def_stack
    directive,              \* self.directive
    argument,               \* self.argument
    enum_value,             \* self.enum_value
    ti_last,                \* the handler called last: enter or leave, and the
                            \* class of its node
    ti_error,               \* the exception that left enter or leave, "" for none
    \* ---- validation/validate.py
    validators,     \* the argument `validators`: a list of rule classes
    visitors,       \* validator.visitors of the ParrallelVisitor
    val_pc,         \* "idle" | "start" | "visit" | "done"
    val_event,      \* the position in the traversal
    val_visitor,    \* the visitor the call in progress is passed to next
    val_type_info,  \* the nodes the type info visitor has entered and not left
    val_calls,      \* the enter and leave calls made, in order, each with the
                    \* state of the type info visitor when it was made
    val_errors,     \* visitor -> its `errors`
    val_recorded,   \* the errors added, in the order they were added
    val_result,     \* the ValidationResult returned
    \* ---- lang/ast.py
    ast_a, ast_b,   \* two nodes
    ast_pc,         \* "idle" | "start" | "compared" | "done"
    ast_eq,         \* a == b
    ast_dicts,      \* <<a.to_dict(), b.to_dict()>>
    \* ---- schema/validation.py
    sv_schema,      \* the interface field and the fields of the object implementing it
    sv_pc,          \* "idle" | "start" | "validated" | "done"
    sv_raised,      \* what validate_schema raised: "none" or the rule that failed
    sv_is_valid,    \* schema.is_valid
    \* ---- tracers.py
    tr_pc,          \* "idle" | "new" | "started" | "ended" | "done"
    tr_now,         \* the clock read by datetime.utcnow()
    tr_fields,      \* TimingTracer.fields: the entries of the OrderedDict, in order
    tr_start,       \* TimingTracer.start
    tr_end,         \* TimingTracer.end
    tr_calls,       \* the on_field_start / on_field_end calls made, in order
    tr_payload,     \* what payload() returned
    \* ---- lang/utils.py: index_to_loc, loc_to_index
    loc_body,       \* the body: a sequence of characters
    loc_position,   \* the zero-indexed offset
    loc_pc,         \* "idle" | "start" | "located" | "done"
    loc_loc,        \* what index_to_loc(body, position) gave
    loc_index       \* what loc_to_index(body, loc) gave

mw_vars == <<middlewares, resolver, tail, mw_pc, stack, flight, calls, handed,
             after_runs, outcome, deferred, callbacks, ret, finished>>

bs_vars == <<raw_string, bs_pc, bs_result>>

sdl_vars == <<document, sdl_pc, schema_definition, type_nodes, extension_nodes,
              directive_nodes, builder, types, directives, operation_types,
              sdl_error, resolvers, known_types>>

ti_stacks == <<type_stack, parent_type_stack, input_type_stack, field_stack,
               input_value_def_stack>>

ti_vars == <<ti_pc, ti_open, ti_stacks, directive, argument, enum_value, ti_last,
             ti_error>>

val_vars == <<validators, visitors, val_pc, val_event, val_visitor, val_type_info,
              val_calls, val_errors, val_recorded, val_result>>

ast_vars == <<ast_a, ast_b, ast_pc, ast_eq, ast_dicts>>

sv_vars == <<sv_schema, sv_pc, sv_raised, sv_is_valid>>

tr_vars == <<tr_pc, tr_now, tr_fields, tr_start, tr_end, tr_calls, tr_payload>>

loc_vars == <<loc_body, loc_position, loc_pc, loc_loc, loc_index>>

vars == <<mw_vars, bs_vars, sdl_vars, ti_vars, val_vars, ast_vars, sv_vars, tr_vars, loc_vars>>

\* What the actions of one part leave alone: the variables of the others
mw_rest == <<bs_vars, sdl_vars, ti_vars, val_vars, ast_vars, sv_vars, tr_vars, loc_vars>>
bs_rest == <<mw_vars, sdl_vars, ti_vars, val_vars, ast_vars, sv_vars, tr_vars, loc_vars>>
sdl_rest == <<mw_vars, bs_vars, ti_vars, val_vars, ast_vars, sv_vars, tr_vars, loc_vars>>
ti_rest == <<mw_vars, bs_vars, sdl_vars, val_vars, ast_vars, sv_vars, tr_vars, loc_vars>>
val_rest == <<mw_vars, bs_vars, sdl_vars, ti_vars, ast_vars, sv_vars, tr_vars, loc_vars>>
ast_rest == <<mw_vars, bs_vars, sdl_vars, ti_vars, val_vars, sv_vars, tr_vars, loc_vars>>
sv_rest == <<mw_vars, bs_vars, sdl_vars, ti_vars, val_vars, ast_vars, tr_vars, loc_vars>>
tr_rest == <<mw_vars, bs_vars, sdl_vars, ti_vars, val_vars, ast_vars, sv_vars, loc_vars>>
loc_rest == <<mw_vars, bs_vars, sdl_vars, ti_vars, val_vars, ast_vars, sv_vars, tr_vars>>

(***************************************************************************)
(* Bounds                                                                  *)
(***************************************************************************)
MaxMiddlewares == 3
MaxRawLen == 7
MaxDefinitions == 3
MaxInferDefinitions == 2
MaxDepth == 6
MaxRules == 2
MaxNesting == 1
MaxModifiers == 1
MaxFields == 3
MaxBodyLen == 4


(***************************************************************************)
(* The values of each part while it is not the part being run              *)
(***************************************************************************)

\* No result yet: a call in progress
NoResult == [kind |-> "none", exc |-> "", by |-> 0]

\* The ids of the callables: 0 for func, the position in the list for a middleware
MwIds == 0..(MaxMiddlewares + 1)

MwIdle ==
    /\ middlewares = <<>>
    /\ resolver = "value"
    /\ tail = <<>>
    /\ mw_pc = "idle"
    /\ stack = <<>>
    /\ flight = NoResult
    /\ calls = <<>>
    /\ handed = <<>>
    /\ after_runs = [i \in MwIds |-> 0]
    /\ outcome = [i \in MwIds |-> NoResult]
    /\ deferred = "none"
    /\ callbacks = <<>>
    /\ ret = NoResult
    /\ finished = <<>>

BsIdle ==
    /\ raw_string = <<>>
    /\ bs_pc = "idle"
    /\ bs_result = <<>>

\* None, where the code holds an AST node or None
NoNode == [cls |-> "None", name |-> "", fields |-> <<>>, interfaces |-> <<>>,
           values |-> <<>>, types |-> <<>>, operation_types |-> <<>>]

\* _TypeMapBuilder.__init__ with known_types = None: nothing built yet (the
\* specified scalars, which are in _cache from the start, are not listed)
NewBuilder == [cache |-> <<>>, stack |-> <<>>, err |-> ""]

\* The names of the types and interfaces of the documents checked
TypeNames == {"Query", "Mutation", "A", "I"}

\* collections.defaultdict(list)
NoExtensions == [n \in TypeNames |-> <<>>]

\* None, where the code holds a type of the schema or None
NoType == [kind |-> "None", name |-> "", fields |-> <<>>, interfaces |-> <<>>,
           values |-> <<>>, types |-> <<>>]

Operations == {"query", "mutation", "subscription"}

\* operation_types.get(k) of every operation of an empty dict
NoOperationTypes == [k \in Operations |-> NoType]

\* resolvers=None, the default of schema_from_ast
NoResolvers == [kind |-> "None", table |-> {}]

SdlIdle ==
    /\ resolvers = NoResolvers
    /\ known_types = <<>>
    /\ document = <<>>
    /\ sdl_pc = "idle"
    /\ schema_definition = NoNode
    /\ type_nodes = <<>>
    /\ extension_nodes = NoExtensions
    /\ directive_nodes = <<>>
    /\ builder = NewBuilder
    /\ types = <<>>
    /\ directives = <<>>
    /\ operation_types = NoOperationTypes
    /\ sdl_error = ""

\* None, where the visitor holds a type, a definition or None
TiNone == [tag |-> "None"]

\* No handler called yet
NoCall == [call |-> "none", kind |-> ""]

TiIdle ==
    /\ ti_pc = "idle"
    /\ ti_open = <<>>
    /\ type_stack = <<>>
    /\ parent_type_stack = <<>>
    /\ input_type_stack = <<>>
    /\ field_stack = <<>>
    /\ input_value_def_stack = <<>>
    /\ directive = TiNone
    /\ argument = TiNone
    /\ enum_value = TiNone
    /\ ti_last = NoCall
    /\ ti_error = ""

ValIdle ==
    /\ validators = <<>>
    /\ visitors = <<>>
    /\ val_pc = "idle"
    /\ val_event = 1
    /\ val_visitor = 1
    /\ val_type_info = <<>>
    /\ val_calls = <<>>
    /\ val_errors = <<>>
    /\ val_recorded = <<>>
    /\ val_result = [errors |-> <<>>, ok |-> FALSE]

AstIdle ==
    /\ ast_a = <<>>
    /\ ast_b = <<>>
    /\ ast_pc = "idle"
    /\ ast_eq = FALSE
    /\ ast_dicts = <<>>

SvIdle ==
    /\ sv_schema = <<>>
    /\ sv_pc = "idle"
    /\ sv_raised = "none"
    /\ sv_is_valid = FALSE

TrIdle ==
    /\ tr_pc = "idle"
    /\ tr_now = 0
    /\ tr_fields = <<>>
    /\ tr_start = TiNone
    /\ tr_end = TiNone
    /\ tr_calls = <<>>
    /\ tr_payload = TiNone

LocIdle ==
    /\ loc_body = <<>>
    /\ loc_position = 0
    /\ loc_pc = "idle"
    /\ loc_loc = TiNone
    /\ loc_index = TiNone

MwRestIdle == BsIdle /\ SdlIdle /\ TiIdle /\ ValIdle /\ AstIdle /\ SvIdle /\ TrIdle /\ LocIdle
BsRestIdle == MwIdle /\ SdlIdle /\ TiIdle /\ ValIdle /\ AstIdle /\ SvIdle /\ TrIdle /\ LocIdle
SdlRestIdle == MwIdle /\ BsIdle /\ TiIdle /\ ValIdle /\ AstIdle /\ SvIdle /\ TrIdle /\ LocIdle
TiRestIdle == MwIdle /\ BsIdle /\ SdlIdle /\ ValIdle /\ AstIdle /\ SvIdle /\ TrIdle /\ LocIdle
ValRestIdle == MwIdle /\ BsIdle /\ SdlIdle /\ TiIdle /\ AstIdle /\ SvIdle /\ TrIdle /\ LocIdle
AstRestIdle == MwIdle /\ BsIdle /\ SdlIdle /\ TiIdle /\ ValIdle /\ SvIdle /\ TrIdle /\ LocIdle
SvRestIdle == MwIdle /\ BsIdle /\ SdlIdle /\ TiIdle /\ ValIdle /\ AstIdle /\ TrIdle /\ LocIdle
TrRestIdle == MwIdle /\ BsIdle /\ SdlIdle /\ TiIdle /\ ValIdle /\ AstIdle /\ SvIdle /\ LocIdle
LocRestIdle == MwIdle /\ BsIdle /\ SdlIdle /\ TiIdle /\ ValIdle /\ AstIdle /\ SvIdle /\ TrIdle

(***************************************************************************)
(* execution/middleware.py                                                 *)
(***************************************************************************)

\* The middlewares a caller can write:
\*   "plain"     def mw(next_, *a): return next_(*a)
\*   "short"     def mw(next_, *a): return value          (short-circuits)
\*   "gen"       def mw(next_, *a): before; yield next_(*a); after
\*   "noyield"   a generator function whose body returns before any yield
MiddlewareKinds == {"plain", "short", "gen", "noyield"}

\* What `func` (the resolver) does: returns a plain value, raises, or returns
\* a deferred that is still pending or already completed.
ResolverKinds == {"value", "raise", "pending", "done_ok", "done_failed"}

Value == [kind |-> "value", exc |-> "", by |-> 0]
Deferred == [kind |-> "deferred", exc |-> "", by |-> 0]
Raised(exc, by) == [kind |-> "raised", exc |-> exc, by |-> by]

\* The wrapped function itself, as a callable: id 0.
Func == [id |-> 0, kind |-> "func", wrapped |-> FALSE]

\* _is_generator(mw): inspect.isgeneratorfunction
IsGenerator(kind) == kind \in {"gen", "noyield"}

\* generator_middleware(func): the callable `wrapped` around a generator function
GeneratorMiddleware(mw) == [mw EXCEPT !.wrapped = TRUE]

\* ft.partial(mw, tail): a callable that calls mw with `tail` as its first
\* argument. A callable is the sequence of its head and of the `next` bound to it.
Partial(mw, next) == <<mw>> \o next

\* A variant of reversed(middlewares) that keeps the order of the list
Unreversed(s) == s

\* reversed(middlewares)
RECURSIVE Reversed(_)
Reversed(s) == IF s = <<>> THEN <<>> ELSE Reversed(Tail(s)) \o <<Head(s)>>

\* The loop of apply_middlewares over an iteration order `order`
RECURSIVE ApplyLoop(_, _)
ApplyLoop(t, order) ==
    IF order = <<>> THEN t
    ELSE LET mw == Head(order)
             cb == IF IsGenerator(mw.kind) THEN GeneratorMiddleware(mw) ELSE mw
         IN ApplyLoop(Partial(cb, t), Tail(order))

\* The middleware objects of a list of kinds: each is identified by its position.
Objects(kinds) == [i \in 1..Len(kinds) |-> [id |-> i, kind |-> kinds[i], wrapped |-> FALSE]]

\* A variant of apply_middlewares that walks the list front to back
ApplyMiddlewaresForward(func, mws) ==
    IF mws = <<>> THEN func ELSE ApplyLoop(func, mws)

\* apply_middlewares(func, middlewares)
ApplyMiddlewares(func, mws) ==
    IF mws = <<>> THEN func ELSE ApplyLoop(func, Reversed(mws))

\* The result of calling the resolver
ResolverResult(r) ==
    CASE r = "value" -> Value
      [] r = "raise" -> Raised("ResolverError", 0)
      [] OTHER -> Deferred

\* A variant of wrapped that returns when the generator did not yield
WrappedNoYieldSilent(id) == Value

\* generator_middleware.wrapped, lines 100-103: next(gen) raised StopIteration
WrappedNoYield(id) == Raised("RuntimeError", id)

\* What entering a callable produces at once: the resolver and the middlewares
\* that do not call next_ have their result; the others call next_ first.
BodyResult(c, r) ==
    CASE c.kind = "func" -> ResolverResult(r)
      [] c.kind = "short" -> Value
      [] c.kind = "noyield" -> WrappedNoYield(c.id)
      [] OTHER -> NoResult

MwInit ==
    /\ MwRestIdle
    /\ middlewares \in UNION {[1..n -> MiddlewareKinds] : n \in 0..MaxMiddlewares}
    /\ resolver \in ResolverKinds
    /\ tail = <<>>
    /\ mw_pc = "start"
    /\ stack = <<>>
    /\ flight = NoResult
    /\ calls = <<>>
    /\ handed = <<>>
    /\ after_runs = [i \in MwIds |-> 0]
    /\ outcome = [i \in MwIds |-> NoResult]
    /\ deferred = "none"
    /\ callbacks = <<>>
    /\ ret = NoResult
    /\ finished = <<>>

\* tail = apply_middlewares(func, middlewares)
Compose ==
    /\ mw_pc = "start"
    /\ tail' = ApplyMiddlewares(<<Func>>, Objects(middlewares))
    /\ mw_pc' = "composed"
    /\ UNCHANGED <<middlewares, resolver, stack, flight, calls, handed,
                   after_runs, outcome, deferred, callbacks, ret, finished>>
    /\ UNCHANGED mw_rest

\* Entering the callable at position j of `tail`: the caller calls tail(...)
\* (j = 1) or the middleware on top of the stack calls its next_(...).
Enter ==
    /\ mw_pc \in {"composed", "running"}
    /\ flight.kind = "none"
    /\ LET j == Len(stack) + 1
           c == tail[j]
       IN /\ mw_pc = "composed" => stack = <<>>
          /\ stack' = Append(stack, j)
          /\ calls' = Append(calls, c.id)
          /\ handed' = Append(handed, SubSeq(tail, j + 1, Len(tail)))
          /\ flight' = BodyResult(c, resolver)
          /\ deferred' = IF c.kind = "func"
                         THEN CASE resolver = "pending" -> "pending"
                                [] resolver = "done_ok" -> "ok"
                                [] resolver = "done_failed" -> "failed"
                                [] OTHER -> "none"
                         ELSE deferred
    /\ mw_pc' = "running"
    /\ UNCHANGED <<middlewares, resolver, tail, after_runs, outcome, callbacks, ret,
                   finished>>
    /\ UNCHANGED mw_rest

\* _finish(_): next(gen) resumes the generator after its yield; the code after
\* the yield runs and the StopIteration that ends the generator is swallowed.
Finish(runs, id) == [runs EXCEPT ![id] = @ + 1]

\* A variant of the return of a call in which a wrapped generator runs
\* _finish at once, whatever it yielded
ReturnFinishingAtOnce ==
    /\ mw_pc = "running"
    /\ flight.kind # "none"
    /\ stack # <<>>
    /\ LET j == stack[Len(stack)]
           c == tail[j]
           yielded == c.kind = "gen" /\ c.wrapped /\ flight.kind # "raised"
           is_deferred == flight.kind = "deferred"
       IN /\ outcome' = [outcome EXCEPT ![c.id] = flight]
          /\ after_runs' =
                IF yielded THEN Finish(after_runs, c.id) ELSE after_runs
          /\ finished' =
                IF yielded THEN Append(finished, c.id) ELSE finished
          /\ callbacks' =
                callbacks
          /\ stack' = SubSeq(stack, 1, Len(stack) - 1)
          /\ IF Len(stack) = 1
             THEN /\ ret' = flight
                  /\ flight' = NoResult
                  /\ mw_pc' = "returned"
             ELSE UNCHANGED <<ret, flight, mw_pc>>
    /\ UNCHANGED <<middlewares, resolver, tail, calls, handed, deferred>>
    /\ UNCHANGED mw_rest

\* The callable on top of the stack gets the result of its next_ (or its own)
\* and returns to its caller. A wrapped generator that got a result from its
\* yield schedules or runs _finish (lines 105-109); an exception raised below
\* it leaves through next(gen) (line 101) and nothing more of it runs.
Return ==
    /\ mw_pc = "running"
    /\ flight.kind # "none"
    /\ stack # <<>>
    /\ LET j == stack[Len(stack)]
           c == tail[j]
           yielded == c.kind = "gen" /\ c.wrapped /\ flight.kind # "raised"
           is_deferred == flight.kind = "deferred"
       IN /\ outcome' = [outcome EXCEPT ![c.id] = flight]
          /\ after_runs' =
                IF yielded /\ (~is_deferred \/ deferred # "pending")
                THEN Finish(after_runs, c.id) ELSE after_runs
          /\ finished' =
                IF yielded /\ (~is_deferred \/ deferred # "pending")
                THEN Append(finished, c.id) ELSE finished
          /\ callbacks' =
                IF yielded /\ is_deferred /\ deferred = "pending"
                THEN Append(callbacks, c.id) ELSE callbacks
          /\ stack' = SubSeq(stack, 1, Len(stack) - 1)
          /\ IF Len(stack) = 1
             THEN /\ ret' = flight
                  /\ flight' = NoResult
                  /\ mw_pc' = "returned"
             ELSE UNCHANGED <<ret, flight, mw_pc>>
    /\ UNCHANGED <<middlewares, resolver, tail, calls, handed, deferred>>
    /\ UNCHANGED mw_rest

RECURSIVE FinishAll(_, _)
FinishAll(runs, ids) ==
    IF ids = <<>> THEN runs ELSE FinishAll(Finish(runs, Head(ids)), Tail(ids))

\* The runtime completes the pending deferred, with a value or with a
\* failure; its done callbacks run, in the order they were added.
Complete ==
    /\ deferred = "pending"
    /\ \E how \in {"ok", "failed"} : deferred' = how
    /\ after_runs' = FinishAll(after_runs, callbacks)
    /\ finished' = finished \o callbacks
    /\ callbacks' = <<>>
    /\ UNCHANGED <<middlewares, resolver, tail, mw_pc, stack, flight, calls,
                   handed, outcome, ret>>
    /\ UNCHANGED mw_rest

MwNext == Compose \/ Enter \/ Return \/ Complete

SpecMiddleware == MwInit /\ [][MwNext]_vars

(***************************************************************************)
(* lang/utils.py                                                           *)
(***************************************************************************)

\* The characters of the strings checked: a space, a letter, and the line
\* terminators "\n" and "\r".
Chars == {" ", "x", "\n", "\r"}

\* What [\t\s] and str.strip() take for whitespace inside a line
Whitespace == {" ", "\t"}

\* LINE_SEPARATOR.split(s), LINE_SEPARATOR = \r\n|[\n\r]: the lines from
\* position i on, `cur` being the line read so far.
RECURSIVE SplitFrom(_, _, _)
SplitFrom(s, i, cur) ==
    IF i > Len(s) THEN <<cur>>
    ELSE IF s[i] = "\r" /\ i < Len(s) /\ s[i + 1] = "\n"
         THEN <<cur>> \o SplitFrom(s, i + 2, <<>>)
    ELSE IF s[i] \in {"\n", "\r"}
         THEN <<cur>> \o SplitFrom(s, i + 1, <<>>)
    ELSE SplitFrom(s, i + 1, Append(cur, s[i]))

LineSeparatorSplit(s) == SplitFrom(s, 1, <<>>)

\* LEADING_WS.sub('', string): the string without its leading whitespace
RECURSIVE LeadingWsSub(_)
LeadingWsSub(line) ==
    IF line # <<>> /\ Head(line) \in Whitespace THEN LeadingWsSub(Tail(line))
    ELSE line

\* leading_whitespace(string)
LeadingWhitespace(line) == Len(line) - Len(LeadingWsSub(line))

\* is_blank(string): not string.strip()
IsBlank(line) == \A i \in 1..Len(line) : line[i] \in Whitespace

\* The absent common indent (None)
None == -1

\* The loop of lines 52-58 from line i (1-based) on
RECURSIVE CommonIndentFrom(_, _, _)
CommonIndentFrom(lines, i, common_indent) ==
    IF i > Len(lines) THEN common_indent
    ELSE IF i = 1 THEN CommonIndentFrom(lines, i + 1, common_indent)
    ELSE LET indent == LeadingWhitespace(lines[i])
         IN IF indent < Len(lines[i])
               /\ (common_indent = None \/ indent < common_indent)
            THEN CommonIndentFrom(lines, i + 1, indent)
            ELSE CommonIndentFrom(lines, i + 1, common_indent)

\* line[common_indent:]
SliceFrom(line, n) == SubSeq(line, n + 1, Len(line))

\* Lines 60-65: the comprehension that removes the indent
Deindent(lines, common_indent) ==
    IF common_indent # None /\ common_indent # 0
    THEN [i \in 1..Len(lines) |->
            IF Len(lines[i]) >= common_indent /\ i > 1
            THEN SliceFrom(lines[i], common_indent) ELSE lines[i]]
    ELSE lines

\* Lines 67-68
RECURSIVE StripLeading(_)
StripLeading(lines) ==
    IF lines # <<>> /\ IsBlank(Head(lines)) THEN StripLeading(Tail(lines))
    ELSE lines

\* Lines 70-71
RECURSIVE StripTrailing(_)
StripTrailing(lines) ==
    IF lines # <<>> /\ IsBlank(lines[Len(lines)])
    THEN StripTrailing(SubSeq(lines, 1, Len(lines) - 1))
    ELSE lines

\* "\n".join(lines)
RECURSIVE Join(_)
Join(lines) ==
    IF lines = <<>> THEN <<>>
    ELSE IF Len(lines) = 1 THEN lines[1]
    ELSE lines[1] \o <<"\n">> \o Join(Tail(lines))

\* parse_block_string(raw_string), with both strip flags at their default
ParseBlockString(raw) ==
    LET lines == LineSeparatorSplit(raw)
        common_indent == CommonIndentFrom(lines, 1, None)
    IN Join(StripTrailing(StripLeading(Deindent(lines, common_indent))))

BsInit ==
    /\ BsRestIdle
    /\ raw_string \in UNION {[1..n -> Chars] : n \in 0..MaxRawLen}
    /\ bs_pc = "call"
    /\ bs_result = <<>>

\* bs_result = parse_block_string(raw_string)
CallParseBlockString ==
    /\ bs_pc = "call"
    /\ bs_result' = ParseBlockString(raw_string)
    /\ bs_pc' = "done"
    /\ UNCHANGED raw_string
    /\ UNCHANGED bs_rest

BsNext == CallParseBlockString

SpecBlockString == BsInit /\ [][BsNext]_vars

(***************************************************************************)
(* lang/ast.py: the nodes of an SDL document                               *)
(***************************************************************************)

TypeDefinitionClasses ==
    {"ScalarTypeDefinition", "ObjectTypeDefinition", "InterfaceTypeDefinition",
     "UnionTypeDefinition", "EnumTypeDefinition", "InputObjectTypeDefinition"}

TypeExtensionClasses ==
    {"ScalarTypeExtension", "ObjectTypeExtension", "InterfaceTypeExtension",
     "UnionTypeExtension", "EnumTypeExtension", "InputObjectTypeExtension"}

\* A node: its class and the attributes the builder reads. A field
\* (FieldDefinition, InputValueDefinition) is its name and the name of its
\* NamedType; interfaces, values and types are lists of names.
Node(cls, name, fields, interfaces, values, members, ops) ==
    [cls |-> cls, name |-> name, fields |-> fields, interfaces |-> interfaces,
     values |-> values, types |-> members, operation_types |-> ops]

FieldNode(name, type) == [name |-> name, type |-> type]

\* OperationTypeDefinition
OperationTypeNode(operation, type) == [operation |-> operation, type |-> type]

\* The attributes a node class has (__slots__); reading another one raises
\* AttributeError.
HasValues(cls) == cls \in {"EnumTypeDefinition", "EnumTypeExtension"}

\* The definitions the documents checked are made of
Catalogue ==
    { \* type Query { q: Int }
      Node("ObjectTypeDefinition", "Query", <<FieldNode("q", "Int")>>, <<>>, <<>>, <<>>, <<>>),
      \* type Mutation { m: Int }
      Node("ObjectTypeDefinition", "Mutation", <<FieldNode("m", "Int")>>, <<>>, <<>>, <<>>, <<>>),
      \* type A { a: Int, self: A }
      Node("ObjectTypeDefinition", "A",
           <<FieldNode("a", "Int"), FieldNode("self", "A")>>, <<>>, <<>>, <<>>, <<>>),
      \* type A implements I { a: Int }
      Node("ObjectTypeDefinition", "A", <<FieldNode("a", "Int")>>, <<"I">>, <<>>, <<>>, <<>>),
      \* interface I { i: Int }
      Node("InterfaceTypeDefinition", "I", <<FieldNode("i", "Int")>>, <<>>, <<>>, <<>>, <<>>),
      \* interface A { i: Int }
      Node("InterfaceTypeDefinition", "A", <<FieldNode("i", "Int")>>, <<>>, <<>>, <<>>, <<>>),
      \* enum A { X }
      Node("EnumTypeDefinition", "A", <<>>, <<>>, <<"X">>, <<>>, <<>>),
      \* union A = Query
      Node("UnionTypeDefinition", "A", <<>>, <<>>, <<>>, <<"Query">>, <<>>),
      \* scalar A
      Node("ScalarTypeDefinition", "A", <<>>, <<>>, <<>>, <<>>, <<>>),
      \* input A { a: Int }
      Node("InputObjectTypeDefinition", "A", <<FieldNode("a", "Int")>>, <<>>, <<>>, <<>>, <<>>),
      \* extend type A { b: Int }
      Node("ObjectTypeExtension", "A", <<FieldNode("b", "Int")>>, <<>>, <<>>, <<>>, <<>>),
      \* extend type A implements I { c: Int }
      Node("ObjectTypeExtension", "A", <<FieldNode("c", "Int")>>, <<"I">>, <<>>, <<>>, <<>>),
      \* extend interface A { j: Int }
      Node("InterfaceTypeExtension", "A", <<FieldNode("j", "Int")>>, <<>>, <<>>, <<>>, <<>>),
      \* extend enum A { Y }
      Node("EnumTypeExtension", "A", <<>>, <<>>, <<"Y">>, <<>>, <<>>),
      \* extend union A = Query
      Node("UnionTypeExtension", "A", <<>>, <<>>, <<>>, <<"Query">>, <<>>),
      \* extend scalar A
      Node("ScalarTypeExtension", "A", <<>>, <<>>, <<>>, <<>>, <<>>),
      \* extend input A { b: Int }
      Node("InputObjectTypeExtension", "A", <<FieldNode("b", "Int")>>, <<>>, <<>>, <<>>, <<>>),
      \* schema { query: Query }
      Node("SchemaDefinition", "", <<>>, <<>>, <<>>, <<>>,
           <<OperationTypeNode("query", "Query")>>),
      \* schema { mutation: Query }
      Node("SchemaDefinition", "", <<>>, <<>>, <<>>, <<>>,
           <<OperationTypeNode("mutation", "Query")>>),
      \* schema { query: Query, query: Query }
      Node("SchemaDefinition", "", <<>>, <<>>, <<>>, <<>>,
           <<OperationTypeNode("query", "Query"), OperationTypeNode("query", "Query")>>),
      \* directive @d on FIELD
      Node("DirectiveDefinition", "d", <<>>, <<>>, <<>>, <<>>, <<>>) }

(***************************************************************************)
(* schema/_schema_from_ast.py                                              *)
(***************************************************************************)

\* The positions of a sequence whose element has the name n
Named(seq, n) == {i \in 1..Len(seq) : seq[i].name = n}

\* `n in d` of a dict held as the sequence of its values
HasName(seq, n) == Named(seq, n) # {}

\* d[n]
Get(seq, n) == seq[CHOOSE i \in Named(seq, n) : TRUE]

\* The first pass so far
Extracted(sd, tn, en, dn, err) ==
    [schema_definition |-> sd, types |-> tn, extensions |-> en,
     directives |-> dn, err |-> err]

\* A variant of the loop body that keeps the last definition of a name
\* instead of raising, and the last extension of a name only
ExtractOneOverwriting(acc, definition) ==
    CASE definition.cls = "SchemaDefinition" ->
            [acc EXCEPT !.schema_definition = definition]
      [] definition.cls \in TypeDefinitionClasses ->
            [acc EXCEPT !.types =
                IF HasName(@, definition.name)
                THEN [i \in 1..Len(@) |->
                        IF @[i].name = definition.name THEN definition ELSE @[i]]
                ELSE Append(@, definition)]
      [] definition.cls \in TypeExtensionClasses ->
            [acc EXCEPT !.extensions[definition.name] = <<definition>>]
      [] definition.cls = "DirectiveDefinition" ->
            [acc EXCEPT !.directives =
                IF HasName(@, definition.name) THEN @ ELSE Append(@, definition)]
      [] OTHER -> acc

\* _extract_type, lines 86-106: the body of the loop for one definition
ExtractOne(acc, definition) ==
    CASE definition.cls = "SchemaDefinition" ->
            IF acc.schema_definition # NoNode
            THEN [acc EXCEPT !.err = "SDLError"]
            ELSE [acc EXCEPT !.schema_definition = definition]
      [] definition.cls \in TypeDefinitionClasses ->
            IF HasName(acc.types, definition.name)
            THEN [acc EXCEPT !.err = "SDLError"]
            ELSE [acc EXCEPT !.types = Append(@, definition)]
      [] definition.cls \in TypeExtensionClasses ->
            [acc EXCEPT !.extensions[definition.name] = Append(@, definition)]
      [] definition.cls = "DirectiveDefinition" ->
            IF HasName(acc.directives, definition.name)
            THEN [acc EXCEPT !.err = "SDLError"]
            ELSE [acc EXCEPT !.directives = Append(@, definition)]
      [] OTHER -> acc

\* _extract_type: the loop, left at the first raise
RECURSIVE ExtractLoop(_, _)
ExtractLoop(acc, definitions) ==
    IF definitions = <<>> \/ acc.err # "" THEN acc
    ELSE ExtractLoop(ExtractOne(acc, Head(definitions)), Tail(definitions))

\* _extract_type(definitions)
ExtractType(definitions) ==
    ExtractLoop(Extracted(NoNode, <<>>, NoExtensions, <<>>, ""), definitions)

\* SPECIFIED_SCALAR_TYPES
SpecifiedScalarTypes == {"Int", "Float", "String", "Boolean", "ID"}

\* A type of the schema. A reference to a type is TypeRef (the type object
\* itself, identified by its name) or Thunk (the lambda of ref()).
GraphQLType(kind, name, fields, interfaces, values, members) ==
    [kind |-> kind, name |-> name, fields |-> fields, interfaces |-> interfaces,
     values |-> values, types |-> members]

TypeRef(name) == [tag |-> "type", name |-> name]

\* _TypeMapBuilder.ref(type_name)
Thunk(name) == [tag |-> "thunk", name |-> name]

NoRef == [tag |-> "none", name |-> ""]

\* schema.Field / schema.InputField: resolve is "" while no resolver is set
SchemaField(name, type) == [name |-> name, type |-> type, resolve |-> ""]

\* _TypeMapBuilder.__init__, lines 140-144: the known types are in _cache
\* before anything is built
Builder(known) == [NewBuilder EXCEPT !.cache = known]

\* `type_name in self._cache`
InCache(b, name) == name \in SpecifiedScalarTypes \/ HasName(b.cache, name)

\* What a builder method gives back: the builder as it left it, and its value
Built(b, v) == [b |-> b, v |-> v]

Fail(b, err) == [b EXCEPT !.err = err]

InStack(b, name) == \E i \in 1..Len(b.stack) : b.stack[i] = name

\* self._stack.pop()
Pop(b) == [b EXCEPT !.stack = SubSeq(@, 1, Len(@) - 1)]

\* self._stack.append(type_name)
Push(b, name) == [b EXCEPT !.stack = Append(@, name)]

\* A list value with v put before it
Prepend(v, rest) == Built(rest.b, <<v>> \o rest.v)

RECURSIVE BuildDefinition(_, _, _, _)
RECURSIVE BuildRefs(_, _, _, _)

\* build_type, lines 198 and 204-205: r is what build_type(type_def) gave
CachedAndPopped(r, type_name) ==
    IF r.b.err # "" THEN Built(r.b, NoRef)
    ELSE Built(Pop(r.b), TypeRef(type_name))

\* build_type(type_node) for a NamedType node, lines 190-198, the name pushed
BuildUncached(pushed, type_name, tn, en) ==
    IF ~HasName(tn, type_name) THEN Built(Fail(pushed, "SDLError"), NoRef)
    ELSE IF InStack(pushed, type_name) THEN Built(pushed, Thunk(type_name))
    ELSE CachedAndPopped(BuildDefinition(pushed, Get(tn, type_name), tn, en), type_name)

\* build_type(type_node) for a NamedType node, lines 183-198 and 204-205
BuildNamed(b, type_name, tn, en) ==
    IF InCache(b, type_name) THEN Built(b, TypeRef(type_name))
    ELSE BuildUncached(Push(b, type_name), type_name, tn, en)

\* The rest of a list of references, the first one built
BuildRefsAfter(first, names, tn, en) ==
    Prepend(first.v, BuildRefs(first.b, names, tn, en))

\* [self.build_type(n) for n in names]: left at the first raise
BuildRefs(b, names, tn, en) ==
    IF names = <<>> \/ b.err # "" THEN Built(b, <<>>)
    ELSE BuildRefsAfter(BuildNamed(b, Head(names), tn, en), Tail(names), tn, en)

\* The names of the types of a list of field nodes
FieldTypes(fields) == [i \in 1..Len(fields) |-> fields[i].type]

\* object_field(node), input_field(node) of every field, r being their types
FieldsOf(r, fields) ==
    IF r.b.err # "" THEN Built(r.b, <<>>)
    ELSE Built(r.b, [i \in 1..Len(fields) |-> SchemaField(fields[i].name, r.v[i])])

\* [self.object_field(f) for f in fields], [self.input_field(f) for f in fields]
BuildFields(b, fields, tn, en) ==
    FieldsOf(BuildRefs(b, FieldTypes(fields), tn, en), fields)

RECURSIVE ObjectExtensions(_, _, _, _, _)

\* object_type, lines 241-245: i is the interfaces of the extension
ObjectExtendInterfaces(i, t, exts, tn, en) ==
    ObjectExtensions(i.b, [t EXCEPT !.interfaces = @ \o i.v], Tail(exts), tn, en)

\* object_type, lines 238-245: f is the fields of the extension. An extension
\* without interfaces makes line 241 t.interfaces.extend(None), a TypeError.
ObjectExtendFields(f, t, exts, tn, en) ==
    IF f.b.err # "" THEN Built(f.b, t)
    ELSE IF Head(exts).interfaces = <<>>
    THEN Built(Fail(f.b, "TypeError"), [t EXCEPT !.fields = @ \o f.v])
    ELSE ObjectExtendInterfaces(BuildRefs(f.b, Head(exts).interfaces, tn, en),
                                [t EXCEPT !.fields = @ \o f.v], exts, tn, en)

\* object_type, lines 232-245: the extension loop
ObjectExtensions(b, t, exts, tn, en) ==
    IF exts = <<>> \/ b.err # "" THEN Built(b, t)
    ELSE IF Head(exts).cls # "ObjectTypeExtension" THEN Built(Fail(b, "SDLError"), t)
    ELSE ObjectExtendFields(BuildFields(b, Head(exts).fields, tn, en), t, exts, tn, en)

\* object_type, lines 222-246: the fields and the interfaces built
ObjectConstruct(fields, i, node, tn, en) ==
    IF i.b.err # "" THEN Built(i.b, NoType)
    ELSE ObjectExtensions(
            i.b, GraphQLType("ObjectType", node.name, fields, i.v, <<>>, <<>>),
            en[node.name], tn, en)

\* object_type, lines 226-230: f is the fields built
ObjectInterfaces(f, node, tn, en) ==
    ObjectConstruct(f.v,
                    IF node.interfaces # <<>>
                    THEN BuildRefs(f.b, node.interfaces, tn, en)
                    ELSE Built(f.b, <<>>),
                    node, tn, en)

\* object_type(node)
ObjectType(b, node, tn, en) ==
    ObjectInterfaces(BuildFields(b, node.fields, tn, en), node, tn, en)

RECURSIVE InterfaceExtensions(_, _, _, _, _)

\* interface_type, lines 261-263: f is the fields of the extension
InterfaceExtendFields(f, t, exts, tn, en) ==
    InterfaceExtensions(f.b, [t EXCEPT !.fields = @ \o f.v], Tail(exts), tn, en)

\* interface_type, lines 254-263: the extension loop
InterfaceExtensions(b, t, exts, tn, en) ==
    IF exts = <<>> \/ b.err # "" THEN Built(b, t)
    ELSE IF Head(exts).cls # "InterfaceTypeExtension" THEN Built(Fail(b, "SDLError"), t)
    ELSE InterfaceExtendFields(BuildFields(b, Head(exts).fields, tn, en), t, exts, tn, en)

\* interface_type, lines 249-264: f is the fields built
InterfaceConstruct(f, node, tn, en) ==
    IF f.b.err # "" THEN Built(f.b, NoType)
    ELSE InterfaceExtensions(
            f.b, GraphQLType("InterfaceType", node.name, f.v, <<>>, <<>>, <<>>),
            en[node.name], tn, en)

\* interface_type(node)
InterfaceType(b, node, tn, en) ==
    InterfaceConstruct(BuildFields(b, node.fields, tn, en), node, tn, en)

\* enum_type, lines 292-298: the extension loop. Line 293 lets only a
\* UnionTypeExtension through, and line 298 reads its `values`.
RECURSIVE EnumExtensions(_, _, _)
EnumExtensions(b, values, exts) ==
    IF exts = <<>> \/ b.err # "" THEN Built(b, values)
    ELSE IF Head(exts).cls # "UnionTypeExtension" THEN Built(Fail(b, "SDLError"), values)
    ELSE IF ~HasValues(Head(exts).cls) THEN Built(Fail(b, "AttributeError"), values)
    ELSE EnumExtensions(b, values \o Head(exts).values, Tail(exts))

\* enum_type, lines 299-303: v is the values
EnumConstruct(v, node) ==
    IF v.b.err # "" THEN Built(v.b, NoType)
    ELSE Built(v.b, GraphQLType("EnumType", node.name, <<>>, <<>>, v.v, <<>>))

\* enum_type(node)
EnumType(b, node, tn, en) ==
    EnumConstruct(EnumExtensions(b, node.values, en[node.name]), node)

RECURSIVE UnionExtensions(_, _, _, _, _)

\* union_type, line 325: m is the types of the extension
UnionExtendTypes(m, t, exts, tn, en) ==
    UnionExtensions(m.b, [t EXCEPT !.types = @ \o m.v], Tail(exts), tn, en)

\* union_type, lines 319-325: the extension loop
UnionExtensions(b, t, exts, tn, en) ==
    IF exts = <<>> \/ b.err # "" THEN Built(b, t)
    ELSE IF Head(exts).cls # "UnionTypeExtension" THEN Built(Fail(b, "SDLError"), t)
    ELSE UnionExtendTypes(BuildRefs(b, Head(exts).types, tn, en), t, exts, tn, en)

\* union_type, lines 314-326: m is the member types built
UnionConstruct(m, node, tn, en) ==
    IF m.b.err # "" THEN Built(m.b, NoType)
    ELSE UnionExtensions(
            m.b, GraphQLType("UnionType", node.name, <<>>, <<>>, <<>>, m.v),
            en[node.name], tn, en)

\* union_type(node)
UnionType(b, node, tn, en) ==
    UnionConstruct(BuildRefs(b, node.types, tn, en), node, tn, en)

\* scalar_type(node): the extensions are not looked at
ScalarType(b, node, tn, en) ==
    Built(b, GraphQLType("ScalarType", node.name, <<>>, <<>>, <<>>, <<>>))

\* input_object_type, lines 335-339: f is the fields built
InputObjectConstruct(f, node) ==
    IF f.b.err # "" THEN Built(f.b, NoType)
    ELSE Built(f.b, GraphQLType("InputObjectType", node.name, f.v, <<>>, <<>>, <<>>))

\* input_object_type(node): the extensions are not looked at
InputObjectType(b, node, tn, en) ==
    InputObjectConstruct(BuildFields(b, node.fields, tn, en), node)

\* type_from_definition(type_def)
TypeFromDefinition(b, type_def, tn, en) ==
    CASE type_def.cls = "ObjectTypeDefinition" -> ObjectType(b, type_def, tn, en)
      [] type_def.cls = "InterfaceTypeDefinition" -> InterfaceType(b, type_def, tn, en)
      [] type_def.cls = "EnumTypeDefinition" -> EnumType(b, type_def, tn, en)
      [] type_def.cls = "UnionTypeDefinition" -> UnionType(b, type_def, tn, en)
      [] type_def.cls = "ScalarTypeDefinition" -> ScalarType(b, type_def, tn, en)
      [] type_def.cls = "InputObjectTypeDefinition" -> InputObjectType(b, type_def, tn, en)

\* The specified scalar of a name, as the type it is in _cache
SpecifiedScalar(name) == GraphQLType("ScalarType", name, <<>>, <<>>, <<>>, <<>>)

\* self._cache[type_name]
Cached(b, name) ==
    IF HasName(b.cache, name) THEN Get(b.cache, name) ELSE SpecifiedScalar(name)

\* A variant of line 200 that returns the type without keeping it in _cache
StoredNowhere(r) ==
    IF r.b.err # "" THEN Built(r.b, NoType)
    ELSE Built(Pop(r.b), r.v)

\* build_type, lines 200 and 204-205: r is what type_from_definition gave
Stored(r) ==
    IF r.b.err # "" THEN Built(r.b, NoType)
    ELSE Built(Pop([r.b EXCEPT !.cache = Append(@, r.v)]), r.v)

\* build_type(type_node) for a TypeDefinition node, lines 183-188 and 199-205:
\* the value is the type built
BuildDefinition(b, type_def, tn, en) ==
    IF InCache(b, type_def.name) THEN Built(b, Cached(b, type_def.name))
    ELSE Stored(TypeFromDefinition(Push(b, type_def.name), type_def, tn, en))

RECURSIVE BuildTypes(_, _, _, _)

\* The rest of the types, the first one built
BuildTypesAfter(first, type_defs, tn, en) ==
    Prepend(first.v, BuildTypes(first.b, type_defs, tn, en))

\* build_types(type_nodes): left at the first raise
BuildTypes(b, type_defs, tn, en) ==
    IF type_defs = <<>> \/ b.err # "" THEN Built(b, <<>>)
    ELSE BuildTypesAfter(BuildDefinition(b, Head(type_defs), tn, en),
                         Tail(type_defs), tn, en)

\* build_directive(node): the directive, by its name
BuildDirective(node) == [name |-> node.name]

\* build_directives(directive_defs)
BuildDirectivesOf(directive_defs) ==
    [i \in 1..Len(directive_defs) |-> BuildDirective(directive_defs[i])]

\* str.capitalize() of the three operation names
Capitalize(k) ==
    CASE k = "query" -> "Query"
      [] k = "mutation" -> "Mutation"
      [] k = "subscription" -> "Subscription"

\* type_map.get(name, None)
GetOrNone(type_map, name) ==
    IF HasName(type_map, name) THEN Get(type_map, name) ELSE NoType

\* What _operation_types gives back: the dict (an absent key reads NoType,
\* as operation_types.get(k) does) and the exception it raised
OperationTypesResult(slots, err) == [slots |-> slots, err |-> err]

\* _operation_types, lines 119-132: the loop, left at the first raise
RECURSIVE OperationTypesLoop(_, _, _)
OperationTypesLoop(acc, opdefs, type_map) ==
    IF opdefs = <<>> \/ acc.err # "" THEN acc
    ELSE LET opdef == Head(opdefs)
         IN IF acc.slots[opdef.operation] # NoType
            THEN [acc EXCEPT !.err = "SDLError"]
            ELSE IF ~HasName(type_map, opdef.type)
            THEN [acc EXCEPT !.err = "SDLError"]
            ELSE OperationTypesLoop(
                    [acc EXCEPT !.slots[opdef.operation] = Get(type_map, opdef.type)],
                    Tail(opdefs), type_map)

\* A variant of _operation_types that looks an undeclared operation up
\* under its default name
OperationTypesWithFallback(sd, type_map) ==
    LET r == OperationTypesLoop(OperationTypesResult(NoOperationTypes, ""),
                                sd.operation_types, type_map)
    IN [r EXCEPT !.slots = [k \in Operations |->
            IF @[k] # NoType THEN @[k] ELSE GetOrNone(type_map, Capitalize(k))]]

\* _operation_types(schema_definition, type_map)
OperationTypes(sd, type_map) ==
    IF sd = NoNode
    THEN OperationTypesResult(
            [k \in Operations |-> GetOrNone(type_map, Capitalize(k))], "")
    ELSE OperationTypesLoop(OperationTypesResult(NoOperationTypes, ""),
                            sd.operation_types, type_map)

SdlInit ==
    /\ SdlRestIdle
    /\ document \in UNION {[1..n -> Catalogue] : n \in 0..MaxDefinitions}
    /\ sdl_pc = "extract"
    /\ schema_definition = NoNode
    /\ type_nodes = <<>>
    /\ extension_nodes = NoExtensions
    /\ directive_nodes = <<>>
    /\ builder = NewBuilder
    /\ types = <<>>
    /\ directives = <<>>
    /\ operation_types = NoOperationTypes
    /\ sdl_error = ""
    /\ resolvers = NoResolvers
    /\ known_types = <<>>

\* schema_from_ast, lines 50-52: the first pass
Extract ==
    /\ sdl_pc = "extract"
    /\ sdl_error = ""
    /\ LET e == ExtractType(document)
       IN IF e.err # ""
          THEN /\ sdl_error' = e.err
               /\ UNCHANGED sdl_pc
               /\ UNCHANGED <<schema_definition, type_nodes, extension_nodes,
                              directive_nodes>>
          ELSE /\ schema_definition' = e.schema_definition
               /\ type_nodes' = e.types
               /\ extension_nodes' = e.extensions
               /\ directive_nodes' = e.directives
               /\ sdl_pc' = "build"
               /\ UNCHANGED sdl_error
    /\ UNCHANGED <<document, builder, types, directives, operation_types>>
    /\ UNCHANGED <<resolvers, known_types, sdl_rest>>

\* schema_from_ast, lines 55-56: builder = _TypeMapBuilder(...); types = builder()
BuildTypeMap ==
    /\ sdl_pc = "build"
    /\ sdl_error = ""
    /\ LET r == BuildTypes(Builder(known_types), type_nodes, type_nodes,
                            extension_nodes)
       IN /\ builder' = r.b
          /\ IF r.b.err # ""
             THEN /\ sdl_error' = r.b.err
                  /\ UNCHANGED sdl_pc
                  /\ UNCHANGED types
             ELSE /\ types' = r.v
                  /\ sdl_pc' = "directives"
                  /\ UNCHANGED sdl_error
    /\ UNCHANGED <<document, schema_definition, type_nodes, extension_nodes,
                   directive_nodes, directives, operation_types>>
    /\ UNCHANGED <<resolvers, known_types, sdl_rest>>

\* schema_from_ast, line 57
BuildDirectives ==
    /\ sdl_pc = "directives"
    /\ sdl_error = ""
    /\ directives' = BuildDirectivesOf(directive_nodes)
    /\ sdl_pc' = "operation_types"
    /\ UNCHANGED <<document, schema_definition, type_nodes, extension_nodes,
                   directive_nodes, builder, types, operation_types, sdl_error>>
    /\ UNCHANGED <<resolvers, known_types, sdl_rest>>

\* schema_from_ast, line 58
SetOperationTypes ==
    /\ sdl_pc = "operation_types"
    /\ sdl_error = ""
    /\ LET r == OperationTypes(schema_definition, types)
       IN IF r.err # ""
          THEN /\ sdl_error' = r.err
               /\ UNCHANGED sdl_pc
               /\ UNCHANGED operation_types
          ELSE /\ operation_types' = r.slots
               /\ sdl_pc' = "resolvers"
               /\ UNCHANGED sdl_error
    /\ UNCHANGED <<document, schema_definition, type_nodes, extension_nodes,
                   directive_nodes, builder, types, directives>>
    /\ UNCHANGED <<resolvers, known_types, sdl_rest>>

\* The resolver a caller registered under a key, as the value it is
RegisteredResolver(key) == key

\* A variant of _infer_resolver that takes `resolvers` for a dict only
InferResolverDictOnly(rs, type_name, field_name) ==
    IF rs.kind = "dict" /\ (type_name \o "." \o field_name) \in rs.table
    THEN RegisteredResolver(type_name \o "." \o field_name)
    ELSE ""

\* _infer_resolver(resolvers, type_name, field_name). A dict is held as the
\* set of its keys; a callable as the set of the (type_name, field_name) it
\* returns a resolver for, written as keys, and it returns None for the rest.
InferResolver(rs, type_name, field_name) ==
    CASE rs.kind = "callable" ->
            IF (type_name \o "." \o field_name) \in rs.table
            THEN RegisteredResolver(type_name \o "." \o field_name)
            ELSE ""
      [] rs.kind = "dict" ->
            IF (type_name \o "." \o field_name) \in rs.table
            THEN RegisteredResolver(type_name \o "." \o field_name)
            ELSE ""
      [] OTHER -> ""

\* schema_from_ast, lines 63-65: field.resolve = field.resolve or ...
WithResolver(rs, type_name, field) ==
    IF field.resolve # "" THEN field
    ELSE [field EXCEPT !.resolve = InferResolver(rs, type_name, field.name)]

\* schema_from_ast, lines 61-65: the body of the loop for one type
WithResolvers(rs, type) ==
    IF type.kind # "ObjectType" THEN type
    ELSE [type EXCEPT !.fields =
            [i \in 1..Len(@) |-> WithResolver(rs, type.name, @[i])]]

\* schema_from_ast, lines 60-65. The types are objects: the ones the
\* operation types and the cache of the builder hold are the same objects
\* and show the assignments too.
InferResolvers ==
    /\ sdl_pc = "resolvers"
    /\ sdl_error = ""
    /\ types' = [i \in 1..Len(types) |-> WithResolvers(resolvers, types[i])]
    /\ operation_types' =
          [k \in Operations |-> WithResolvers(resolvers, operation_types[k])]
    /\ builder' = [builder EXCEPT !.cache =
                      [i \in 1..Len(@) |-> WithResolvers(resolvers, @[i])]]
    /\ sdl_pc' = "done"
    /\ UNCHANGED <<document, schema_definition, type_nodes, extension_nodes,
                   directive_nodes, directives, sdl_error>>
    /\ UNCHANGED <<resolvers, known_types, sdl_rest>>

SdlNext ==
    Extract \/ BuildTypeMap \/ BuildDirectives \/ SetOperationTypes \/ InferResolvers

\* The fields of the types a caller supplies have the resolvers the caller
\* gave them: KnownA is an object type A { a: Int, k: Int } whose field a
\* has a resolver
KnownA ==
    GraphQLType("ObjectType", "A",
                << [name |-> "a", type |-> TypeRef("Int"), resolve |-> "own"],
                   [name |-> "k", type |-> TypeRef("Int"), resolve |-> ""] >>,
                <<>>, <<>>, <<>>)

\* The keys the resolvers of a caller are registered under
ResolverTables == {{}, {"A.a", "A.k"}, {"Query.q", "A.a", "A.self"}}

\* schema_from_ast(ast, resolvers, known_types)
InferInit ==
    /\ SdlRestIdle
    /\ document \in UNION {[1..n -> Catalogue] : n \in 0..MaxInferDefinitions}
    /\ resolvers \in {NoResolvers}
          \cup [kind : {"dict", "callable"}, table : ResolverTables]
    /\ known_types \in {<<>>, <<KnownA>>}
    /\ sdl_pc = "extract"
    /\ schema_definition = NoNode
    /\ type_nodes = <<>>
    /\ extension_nodes = NoExtensions
    /\ directive_nodes = <<>>
    /\ builder = NewBuilder
    /\ types = <<>>
    /\ directives = <<>>
    /\ operation_types = NoOperationTypes
    /\ sdl_error = ""

SpecResolvers == InferInit /\ [][SdlNext]_vars

SpecSchema == SdlInit /\ [][SdlNext]_vars

(***************************************************************************)
(* utilities/type_info.py                                                  *)
(***************************************************************************)

\* A type of the schema: a named type under its wrappers, outermost first
\* ("N" for NonNullType, "L" for ListType)
TiType(name, wrap) == [tag |-> "type", name |-> name, wrap |-> wrap]

\* schema.Argument / schema.InputField
TiInputValue(name, type) == [tag |-> "input_value", name |-> name, type |-> type]

\* schema.Field
TiField(name, type, arguments) ==
    [tag |-> "field", name |-> name, type |-> type, arguments |-> arguments]

\* schema.Directive
TiDirective(name, arguments) ==
    [tag |-> "directive", name |-> name, arguments |-> arguments]

\* The schema the documents are visited against:
\*   type Query { f(x: Int, o: In, l: [E!], r: In!, m: [In!]!): T   s: Int }
\*   type T { g: [T!]! }      enum E { V }      input In { e: E  n: In }
\*   interface I { s: Int }   union U = T
\*   directive @d(x: Int)
\* It has no mutation type and no subscription type.
TiKinds ==
    ("Query" :> "Object") @@ ("T" :> "Object") @@ ("E" :> "Enum")
        @@ ("In" :> "InputObject") @@ ("Int" :> "Scalar") @@ ("String" :> "Scalar")
        @@ ("I" :> "Interface") @@ ("U" :> "Union")
        @@ ("__Schema" :> "Object") @@ ("__Type" :> "Object")

TiFields(type_name) ==
    CASE type_name = "Query" ->
            << TiField("f", TiType("T", <<>>),
                       << TiInputValue("x", TiType("Int", <<>>)),
                          TiInputValue("o", TiType("In", <<>>)),
                          TiInputValue("l", TiType("E", <<"L", "N">>)),
                          TiInputValue("r", TiType("In", <<"N">>)),
                          TiInputValue("m", TiType("In", <<"N", "L", "N">>)) >>),
               TiField("s", TiType("Int", <<>>), <<>>) >>
      [] type_name = "T" -> << TiField("g", TiType("T", <<"N", "L", "N">>), <<>>) >>
      [] type_name = "I" -> << TiField("s", TiType("Int", <<>>), <<>>) >>
      [] type_name = "In" -> << TiInputValue("e", TiType("E", <<>>)),
                                TiInputValue("n", TiType("In", <<>>)) >>
      [] OTHER -> <<>>

TiEnumValues(type_name) == IF type_name = "E" THEN {"V"} ELSE {}

TiDirectives == << TiDirective("d", << TiInputValue("x", TiType("Int", <<>>)) >>) >>

TiRootTypes == [query |-> TiType("Query", <<>>), mutation |-> TiNone,
                subscription |-> TiNone]

\* schema.introspection
SchemaIntrospectionField == TiField("__schema", TiType("__Schema", <<"N">>), <<>>)
TypeIntrospectionField ==
    TiField("__type", TiType("__Type", <<>>),
            << TiInputValue("name", TiType("String", <<"N">>)) >>)
TypeNameIntrospectionField == TiField("__typename", TiType("String", <<"N">>), <<>>)

\* find_one(lst, lambda a: a.name == name): the first match, or None
FindOne(lst, name) ==
    IF \E i \in 1..Len(lst) : lst[i].name = name
    THEN lst[CHOOSE i \in 1..Len(lst) :
                /\ lst[i].name = name
                /\ \A j \in 1..(i - 1) : lst[j].name # name]
    ELSE TiNone

\* unwrap_type(t): the named type under all the wrappers
UnwrapType(t) == TiType(t.name, <<>>)

\* nullable_type(t): t without its outer NonNullType
NullableType(t) ==
    IF t.wrap # <<>> /\ Head(t.wrap) = "N" THEN TiType(t.name, Tail(t.wrap)) ELSE t

\* isinstance(t, ListType)
IsListType(t) == t.tag = "type" /\ t.wrap # <<>> /\ Head(t.wrap) = "L"

\* isinstance(t, cls) for the classes of named types
IsKind(t, kinds) == t.tag = "type" /\ t.wrap = <<>> /\ TiKinds[t.name] \in kinds

\* isinstance(t, GraphQLCompositeType)
IsCompositeType(t) == IsKind(t, {"Object", "Interface", "Union"})

\* is_output_type(t), is_input_type(t): of the named type under the wrappers
IsOutputType(t) ==
    t.tag = "type" /\ TiKinds[t.name] \in {"Scalar", "Enum", "Object", "Interface", "Union"}

IsInputType(t) ==
    t.tag = "type" /\ TiKinds[t.name] \in {"Scalar", "Enum", "InputObject"}

\* An exception on its way out of a call
TiRaise(exc) == [tag |-> "raise", exc |-> exc]

\* schema.get_type_from_literal(type_node): UnknownType for a name the
\* schema does not have
GetTypeFromLiteral(type_node) ==
    IF type_node.name \in DOMAIN TiKinds
    THEN TiType(type_node.name, type_node.wrap)
    ELSE TiRaise("UnknownType")

\* A variant of _type_from_ast that lets UnknownType through
TypeFromAstUncaught(type_node) == GetTypeFromLiteral(type_node)

\* TypeInfoVisitor._type_from_ast(type_node)
TypeFromAst(type_node) ==
    IF GetTypeFromLiteral(type_node) = TiRaise("UnknownType") THEN TiNone
    ELSE GetTypeFromLiteral(type_node)

\* enum.get_value(name): UnknownEnumValue for a name the enum does not have
GetValue(enum, name) ==
    IF name \in TiEnumValues(enum.name) THEN [tag |-> "enum_value", name |-> name]
    ELSE TiRaise("UnknownEnumValue")

\* _peek(lst, count)
Peek(lst, count) == IF Len(lst) >= count THEN lst[Len(lst) - count + 1] ELSE TiNone

\* A lookup that gives the meta fields of the query type on every type
GetFieldDefOfAnyType(parent_type, name) ==
    IF name = "__schema" THEN SchemaIntrospectionField
    ELSE IF name = "__type" THEN TypeIntrospectionField
    ELSE IF IsCompositeType(parent_type) /\ name = "__typename"
    THEN TypeNameIntrospectionField
    ELSE IF IsKind(parent_type, {"Object", "Interface"})
    THEN FindOne(TiFields(parent_type.name), name)
    ELSE TiNone

\* _get_field_def(schema, parent_type, field), lines 43-60
GetFieldDefOf(parent_type, name) ==
    IF parent_type = TiRootTypes["query"] /\ name = "__schema"
    THEN SchemaIntrospectionField
    ELSE IF parent_type = TiRootTypes["query"] /\ name = "__type"
    THEN TypeIntrospectionField
    ELSE IF IsCompositeType(parent_type) /\ name = "__typename"
    THEN TypeNameIntrospectionField
    ELSE IF IsKind(parent_type, {"Object", "Interface"})
    THEN FindOne(TiFields(parent_type.name), name)
    ELSE TiNone

\* TypeInfoVisitor._get_field_def(node), lines 159-165
GetFieldDef(parent_type, name) ==
    IF parent_type # TiNone THEN GetFieldDefOf(parent_type, name) ELSE TiNone

\* The nodes of a document the visitor has a handler for, by class. `name`
\* is what the handler reads of the node: node.operation of an operation,
\* the name of the type condition of a fragment ("" for an inline fragment
\* without one), node.name.value of a field, directive, argument or object
\* field, node.value of an enum value; `wrap` is the wrapping of node.type of
\* a variable definition.
TiNode(kind, name, wrap) == [kind |-> kind, name |-> name, wrap |-> wrap]

TiNodes ==
    {TiNode("OperationDefinition", n, <<>>) : n \in {"query", "mutation"}}
    \cup {TiNode("FragmentDefinition", n, <<>>) : n \in {"T", "I", "U", "Int", "In", "Nope"}}
    \cup {TiNode("InlineFragment", n, <<>>) : n \in {"", "T", "Nope"}}
    \cup {TiNode("SelectionSet", "", <<>>)}
    \cup {TiNode("Field", n, <<>>) :
            n \in {"f", "g", "s", "zz", "__typename", "__schema", "__type"}}
    \cup {TiNode("Directive", n, <<>>) : n \in {"d", "nope"}}
    \cup {TiNode("Argument", n, <<>>) : n \in {"x", "o", "l", "r", "m", "zz"}}
    \cup {TiNode("VariableDefinition", n, <<>>) : n \in {"In", "T", "Nope"}}
    \cup {TiNode("VariableDefinition", "E", <<"L", "N">>)}
    \cup {TiNode("ListValue", "", <<>>)}
    \cup {TiNode("ObjectField", n, <<>>) : n \in {"e", "n", "zz"}}
    \cup {TiNode("EnumValue", n, <<>>) : n \in {"V", "W"}}

\* The classes of the nodes met below a node of a class, in a document of
\* any shape the parser gives (nodes the visitor has no handler for, such as
\* ObjectValue or FragmentSpread, are passed through)
ChildKinds(kind) ==
    CASE kind = "Document" -> {"OperationDefinition", "FragmentDefinition"}
      [] kind = "OperationDefinition" -> {"VariableDefinition", "Directive", "SelectionSet"}
      [] kind = "FragmentDefinition" -> {"Directive", "SelectionSet"}
      [] kind = "SelectionSet" -> {"Field", "InlineFragment", "Directive"}
      [] kind = "Field" -> {"Argument", "Directive", "SelectionSet"}
      [] kind = "InlineFragment" -> {"Directive", "SelectionSet"}
      [] kind = "Directive" -> {"Argument"}
      [] kind \in {"Argument", "VariableDefinition", "ListValue", "ObjectField"} ->
            {"ListValue", "ObjectField", "EnumValue"}
      [] OTHER -> {}

\* The class of the innermost node entered and not left
TopKind == IF ti_open = <<>> THEN "Document" ELSE ti_open[Len(ti_open)].node.kind

\* The depths of the five stacks
Depths == <<Len(type_stack), Len(parent_type_stack), Len(input_type_stack),
            Len(field_stack), Len(input_value_def_stack)>>

\* The traversal comes to a node of the class kind: enter(node) is called
Visits(node, kind) ==
    /\ ti_pc = "visit"
    /\ node.kind = kind
    /\ kind \in ChildKinds(TopKind)
    /\ Len(ti_open) < MaxDepth
    /\ ti_open' = Append(ti_open, [node |-> node, before |-> Depths])
    /\ ti_last' = [call |-> "enter", kind |-> kind]

\* The traversal is done with the children of the innermost node, of the
\* class kind: leave(node) is called
Leaves(kind) ==
    /\ ti_pc = "visit"
    /\ ti_open # <<>>
    /\ TopKind = kind
    /\ ti_last' = [call |-> "leave", kind |-> kind]

Left == ti_open' = SubSeq(ti_open, 1, Len(ti_open) - 1)

\* lst.pop()
Popped(lst) == SubSeq(lst, 1, Len(lst) - 1)

\* An exception leaves the handler
TiRaises(exc) ==
    /\ ti_error' = exc
    /\ ti_pc' = "raised"

\* The properties type, parent_type, input_type, field
CurrentType == Peek(type_stack, 1)
CurrentParentType == Peek(parent_type_stack, 1)
CurrentInputType == Peek(input_type_stack, 1)
CurrentField == Peek(field_stack, 1)

\* type_ if is_output_type(type_) else None
OutputOrNone(t) == IF IsOutputType(t) THEN t ELSE TiNone

\* type_ if is_input_type(type_) else None
InputOrNone(t) == IF IsInputType(t) THEN t ELSE TiNone

\* d.type if d and is_input_type(d.type) else None
InputTypeOfDef(d) == IF d # TiNone /\ IsInputType(d.type) THEN d.type ELSE TiNone

\* unwrap_type(t) if t else None
UnwrappedOrNone(t) == IF t # TiNone THEN UnwrapType(t) ELSE TiNone

EnterSelectionSet ==
    \E node \in TiNodes :
        /\ Visits(node, "SelectionSet")
        /\ parent_type_stack' =
              Append(parent_type_stack,
                     IF IsCompositeType(UnwrappedOrNone(CurrentType))
                     THEN UnwrappedOrNone(CurrentType) ELSE TiNone)
        /\ UNCHANGED <<type_stack, input_type_stack, field_stack,
                       input_value_def_stack, directive, argument, enum_value,
                       ti_pc, ti_error, ti_rest>>

LeaveSelectionSet ==
    /\ Leaves("SelectionSet")
    /\ IF parent_type_stack = <<>>
       THEN TiRaises("IndexError") /\ UNCHANGED <<ti_open, parent_type_stack>>
       ELSE /\ parent_type_stack' = Popped(parent_type_stack)
            /\ Left
            /\ UNCHANGED <<ti_pc, ti_error>>
    /\ UNCHANGED <<type_stack, input_type_stack, field_stack,
                   input_value_def_stack, directive, argument, enum_value, ti_rest>>

EnterField ==
    \E node \in TiNodes :
        /\ Visits(node, "Field")
        /\ field_stack' = Append(field_stack, GetFieldDef(CurrentParentType, node.name))
        /\ type_stack' =
              Append(type_stack,
                     IF GetFieldDef(CurrentParentType, node.name) # TiNone
                     THEN OutputOrNone(GetFieldDef(CurrentParentType, node.name).type)
                     ELSE TiNone)
        /\ UNCHANGED <<parent_type_stack, input_type_stack, input_value_def_stack,
                       directive, argument, enum_value, ti_pc, ti_error, ti_rest>>

\* A variant of leave_field that forgets the field stack
LeaveFieldTypeOnly ==
    /\ Leaves("Field")
    /\ type_stack' = Popped(type_stack)
    /\ Left
    /\ UNCHANGED <<field_stack, ti_pc, ti_error>>
    /\ UNCHANGED <<parent_type_stack, input_type_stack, input_value_def_stack,
                   directive, argument, enum_value, ti_rest>>

LeaveField ==
    /\ Leaves("Field")
    /\ IF type_stack = <<>> \/ field_stack = <<>>
       THEN TiRaises("IndexError") /\ UNCHANGED <<ti_open, type_stack, field_stack>>
       ELSE /\ type_stack' = Popped(type_stack)
            /\ field_stack' = Popped(field_stack)
            /\ Left
            /\ UNCHANGED <<ti_pc, ti_error>>
    /\ UNCHANGED <<parent_type_stack, input_type_stack, input_value_def_stack,
                   directive, argument, enum_value, ti_rest>>

EnterDirective ==
    \E node \in TiNodes :
        /\ Visits(node, "Directive")
        /\ directive' = FindOne(TiDirectives, node.name)
        /\ UNCHANGED <<ti_stacks, argument, enum_value, ti_pc, ti_error, ti_rest>>

LeaveDirective ==
    /\ Leaves("Directive")
    /\ directive' = TiNone
    /\ Left
    /\ UNCHANGED <<ti_stacks, argument, enum_value, ti_pc, ti_error, ti_rest>>

EnterOperationDefinition ==
    \E node \in TiNodes :
        /\ Visits(node, "OperationDefinition")
        /\ type_stack' =
              Append(type_stack,
                     IF node.name \in DOMAIN TiRootTypes
                           /\ IsKind(TiRootTypes[node.name], {"Object"})
                     THEN TiRootTypes[node.name] ELSE TiNone)
        /\ UNCHANGED <<parent_type_stack, input_type_stack, field_stack,
                       input_value_def_stack, directive, argument, enum_value,
                       ti_pc, ti_error, ti_rest>>

\* leave_operation_definition, leave_fragment_definition, leave_inline_fragment
LeaveTyped ==
    /\ IF type_stack = <<>>
       THEN TiRaises("IndexError") /\ UNCHANGED <<ti_open, type_stack>>
       ELSE /\ type_stack' = Popped(type_stack)
            /\ Left
            /\ UNCHANGED <<ti_pc, ti_error>>
    /\ UNCHANGED <<parent_type_stack, input_type_stack, field_stack,
                   input_value_def_stack, directive, argument, enum_value, ti_rest>>

LeaveOperationDefinition ==
    /\ Leaves("OperationDefinition")
    /\ LeaveTyped

\* enter_fragment_definition, and enter_inline_fragment with a type
\* condition: type_ is what _type_from_ast gave, or the exception it let out
EnterTyped(node, type_) ==
    /\ IF type_.tag = "raise"
       THEN /\ TiRaises(type_.exc)
            /\ UNCHANGED type_stack
       ELSE /\ type_stack' = Append(type_stack, OutputOrNone(type_))
            /\ UNCHANGED <<ti_pc, ti_error>>
    /\ UNCHANGED <<parent_type_stack, input_type_stack, field_stack,
                   input_value_def_stack, directive, argument, enum_value, ti_rest>>

EnterFragmentDefinition ==
    \E node \in TiNodes :
        /\ Visits(node, "FragmentDefinition")
        /\ EnterTyped(node, TypeFromAst(node))

LeaveFragmentDefinition ==
    /\ Leaves("FragmentDefinition")
    /\ LeaveTyped

EnterInlineFragment ==
    \E node \in TiNodes :
        /\ Visits(node, "InlineFragment")
        /\ IF node.name # ""
           THEN EnterTyped(node, TypeFromAst(node))
           ELSE EnterTyped(node, CurrentType)

LeaveInlineFragment ==
    /\ Leaves("InlineFragment")
    /\ LeaveTyped

EnterVariableDefinition ==
    \E node \in TiNodes :
        /\ Visits(node, "VariableDefinition")
        /\ IF TypeFromAst(node).tag = "raise"
           THEN /\ TiRaises(TypeFromAst(node).exc)
                /\ UNCHANGED input_type_stack
           ELSE /\ input_type_stack' =
                      Append(input_type_stack, InputOrNone(TypeFromAst(node)))
                /\ UNCHANGED <<ti_pc, ti_error>>
        /\ UNCHANGED <<type_stack, parent_type_stack, field_stack,
                       input_value_def_stack, directive, argument, enum_value,
                       ti_rest>>

LeaveVariableDefinition ==
    /\ Leaves("VariableDefinition")
    /\ IF input_type_stack = <<>>
       THEN TiRaises("IndexError") /\ UNCHANGED <<ti_open, input_type_stack>>
       ELSE /\ input_type_stack' = Popped(input_type_stack)
            /\ Left
            /\ UNCHANGED <<ti_pc, ti_error>>
    /\ UNCHANGED <<type_stack, parent_type_stack, field_stack,
                   input_value_def_stack, directive, argument, enum_value, ti_rest>>

\* ctx = self.directive or self.field
ArgumentContext == IF directive # TiNone THEN directive ELSE CurrentField

EnterArgument ==
    \E node \in TiNodes :
        /\ Visits(node, "Argument")
        /\ IF ArgumentContext # TiNone
           THEN /\ argument' = FindOne(ArgumentContext.arguments, node.name)
                /\ input_value_def_stack' =
                      Append(input_value_def_stack,
                             FindOne(ArgumentContext.arguments, node.name))
                /\ input_type_stack' =
                      Append(input_type_stack,
                             InputTypeOfDef(FindOne(ArgumentContext.arguments, node.name)))
           ELSE /\ argument' = TiNone
                /\ input_type_stack' = Append(input_type_stack, TiNone)
                /\ input_value_def_stack' = Append(input_value_def_stack, TiNone)
        /\ UNCHANGED <<type_stack, parent_type_stack, field_stack, directive,
                       enum_value, ti_pc, ti_error, ti_rest>>

\* _leave_input_value, with what its caller does to self.argument
LeaveInputValue(kind) ==
    /\ Leaves(kind)
    /\ IF input_type_stack = <<>> \/ input_value_def_stack = <<>>
       THEN /\ TiRaises("IndexError")
            /\ UNCHANGED <<ti_open, input_type_stack, input_value_def_stack>>
       ELSE /\ input_type_stack' = Popped(input_type_stack)
            /\ input_value_def_stack' = Popped(input_value_def_stack)
            /\ Left
            /\ UNCHANGED <<ti_pc, ti_error>>
    /\ UNCHANGED <<type_stack, parent_type_stack, field_stack, directive,
                   enum_value, ti_rest>>

LeaveArgument ==
    /\ argument' = TiNone
    /\ LeaveInputValue("Argument")

\* enter_list_value, lines 275-278: the item type of the current input type
ItemType(input_type) ==
    IF input_type # TiNone /\ IsListType(NullableType(input_type))
    THEN UnwrapType(NullableType(input_type))
    ELSE TiNone

EnterListValue ==
    \E node \in TiNodes :
        /\ Visits(node, "ListValue")
        /\ input_type_stack' =
              Append(input_type_stack, InputOrNone(ItemType(CurrentInputType)))
        /\ input_value_def_stack' = Append(input_value_def_stack, TiNone)
        /\ UNCHANGED <<type_stack, parent_type_stack, field_stack, directive,
                       argument, enum_value, ti_pc, ti_error, ti_rest>>

LeaveListValue ==
    /\ UNCHANGED argument
    /\ LeaveInputValue("ListValue")

EnterObjectField ==
    \E node \in TiNodes :
        /\ Visits(node, "ObjectField")
        /\ IF IsKind(UnwrappedOrNone(CurrentInputType), {"InputObject"})
           THEN /\ input_value_def_stack' =
                      Append(input_value_def_stack,
                             FindOne(TiFields(CurrentInputType.name), node.name))
                /\ input_type_stack' =
                      Append(input_type_stack,
                             InputTypeOfDef(FindOne(TiFields(CurrentInputType.name),
                                                    node.name)))
           ELSE /\ input_type_stack' = Append(input_type_stack, TiNone)
                /\ input_value_def_stack' = Append(input_value_def_stack, TiNone)
        /\ UNCHANGED <<type_stack, parent_type_stack, field_stack, directive,
                       argument, enum_value, ti_pc, ti_error, ti_rest>>

LeaveObjectField ==
    /\ UNCHANGED argument
    /\ LeaveInputValue("ObjectField")

EnterEnumValue ==
    \E node \in TiNodes :
        /\ Visits(node, "EnumValue")
        /\ IF IsKind(UnwrappedOrNone(CurrentInputType), {"Enum"})
           THEN enum_value' =
                   (IF GetValue(UnwrappedOrNone(CurrentInputType), node.name)
                          = TiRaise("UnknownEnumValue")
                    THEN TiNone
                    ELSE GetValue(UnwrappedOrNone(CurrentInputType), node.name))
           ELSE UNCHANGED enum_value
        /\ UNCHANGED <<ti_stacks, directive, argument, ti_pc, ti_error, ti_rest>>

LeaveEnumValue ==
    /\ Leaves("EnumValue")
    /\ enum_value' = TiNone
    /\ Left
    /\ UNCHANGED <<ti_stacks, directive, argument, ti_pc, ti_error, ti_rest>>

\* TypeInfoVisitor(schema), before the traversal of a document
TiInit ==
    /\ TiRestIdle
    /\ ti_pc = "visit"
    /\ ti_open = <<>>
    /\ type_stack = <<>>
    /\ parent_type_stack = <<>>
    /\ input_type_stack = <<>>
    /\ field_stack = <<>>
    /\ input_value_def_stack = <<>>
    /\ directive = TiNone
    /\ argument = TiNone
    /\ enum_value = TiNone
    /\ ti_last = NoCall
    /\ ti_error = ""

TiNext ==
    \/ EnterSelectionSet \/ LeaveSelectionSet
    \/ EnterField \/ LeaveField
    \/ EnterDirective \/ LeaveDirective
    \/ EnterOperationDefinition \/ LeaveOperationDefinition
    \/ EnterFragmentDefinition \/ LeaveFragmentDefinition
    \/ EnterInlineFragment \/ LeaveInlineFragment
    \/ EnterVariableDefinition \/ LeaveVariableDefinition
    \/ EnterArgument \/ LeaveArgument
    \/ EnterListValue \/ LeaveListValue
    \/ EnterObjectField \/ LeaveObjectField
    \/ EnterEnumValue \/ LeaveEnumValue

SpecTypeInfo == TiInit /\ [][TiNext]_vars

(***************************************************************************)
(* validation/validate.py                                                  *)
(***************************************************************************)

\* The rule classes a caller passes as `validators`
RuleClasses == {"KnownTypeNamesChecker", "ScalarLeafsChecker"}

\* What visit() does with a two-node document: the calls the composed
\* visitor gets, in order
Traversal ==
    << [call |-> "enter", node |-> "Document"],
       [call |-> "enter", node |-> "Field"],
       [call |-> "leave", node |-> "Field"],
       [call |-> "leave", node |-> "Document"] >>

\* A variant of lines 98-104 that puts the type info visitor after the rules
VisitorsTypeInfoLast(rules) == rules \o <<"TypeInfoVisitor">>

\* validate_ast, lines 98-104: ParrallelVisitor(type_info, *[rule instances])
Visitors(rules) == <<"TypeInfoVisitor">> \o rules

RECURSIVE Chain(_)
\* itertools.chain(*lists)
Chain(lists) == IF lists = <<>> THEN <<>> ELSE Head(lists) \o Chain(Tail(lists))

\* A variant of line 108 that starts one visitor too late
RuleErrorsFromSecond(vs, errs) == Chain([i \in 1..(Len(vs) - 2) |-> errs[i + 2]])

\* validate_ast, line 108: chain(*[v.errors for v in validator.visitors[1:]])
RuleErrors(vs, errs) == Chain([i \in 1..(Len(vs) - 1) |-> errs[i + 1]])

\* ValidationResult(errors) and its __bool__
ValidationResult(errors) == [errors |-> errors, ok |-> (errors = <<>>)]

NoValidationResult == [errors |-> <<>>, ok |-> FALSE]

\* validate_ast(schema, ast_root, validators) is called
ValInit ==
    /\ ValRestIdle
    /\ validators \in UNION {[1..n -> RuleClasses] : n \in 0..MaxRules}
    /\ val_pc = "start"
    /\ visitors = <<>>
    /\ val_event = 1
    /\ val_visitor = 1
    /\ val_type_info = <<>>
    /\ val_calls = <<>>
    /\ val_errors = <<>>
    /\ val_recorded = <<>>
    /\ val_result = NoValidationResult

\* validate_ast, lines 84-104: the visitors are made and composed
ComposeVisitors ==
    /\ val_pc = "start"
    /\ visitors' = Visitors(validators)
    /\ val_errors' = [i \in 1..Len(Visitors(validators)) |-> <<>>]
    /\ val_pc' = "visit"
    /\ UNCHANGED <<validators, val_event, val_visitor, val_type_info, val_calls,
                   val_recorded, val_result, val_rest>>

\* The call in progress is passed on to the next visitor, or is over
PassedOn ==
    IF val_visitor < Len(visitors)
    THEN val_visitor' = val_visitor + 1 /\ UNCHANGED val_event
    ELSE val_visitor' = 1 /\ val_event' = val_event + 1

\* The composed visitor passes enter(node) or leave(node) to the visitor
\* whose turn it is, the type info visitor: it pushes or pops its state
CallTypeInfo ==
    /\ val_pc = "visit"
    /\ val_event <= Len(Traversal)
    /\ visitors[val_visitor] = "TypeInfoVisitor"
    /\ val_type_info' =
          (IF Traversal[val_event].call = "enter"
           THEN Append(val_type_info, Traversal[val_event].node)
           ELSE SubSeq(val_type_info, 1, Len(val_type_info) - 1))
    /\ val_calls' = Append(val_calls, [visitor |-> val_visitor,
                                       call |-> Traversal[val_event].call,
                                       node |-> Traversal[val_event].node,
                                       type_info |-> val_type_info])
    /\ PassedOn
    /\ UNCHANGED <<validators, visitors, val_pc, val_errors, val_recorded,
                   val_result, val_rest>>

\* The same for a rule visitor: it reads the type info and may add an error
CallRule ==
    /\ val_pc = "visit"
    /\ val_event <= Len(Traversal)
    /\ visitors[val_visitor] # "TypeInfoVisitor"
    /\ val_calls' = Append(val_calls, [visitor |-> val_visitor,
                                       call |-> Traversal[val_event].call,
                                       node |-> Traversal[val_event].node,
                                       type_info |-> val_type_info])
    /\ \E add_error \in BOOLEAN :
          IF add_error
          THEN /\ val_errors' =
                     [val_errors EXCEPT ![val_visitor] =
                         Append(@, [by |-> val_visitor,
                                    call |-> Traversal[val_event].call,
                                    node |-> Traversal[val_event].node])]
               /\ val_recorded' =
                     Append(val_recorded, [by |-> val_visitor,
                                           call |-> Traversal[val_event].call,
                                           node |-> Traversal[val_event].node])
          ELSE UNCHANGED <<val_errors, val_recorded>>
    /\ PassedOn
    /\ UNCHANGED <<validators, visitors, val_pc, val_type_info, val_result, val_rest>>

\* validate_ast, lines 107-109
ReturnResult ==
    /\ val_pc = "visit"
    /\ val_event > Len(Traversal)
    /\ val_result' = ValidationResult(RuleErrors(visitors, val_errors))
    /\ val_pc' = "done"
    /\ UNCHANGED <<validators, visitors, val_event, val_visitor, val_type_info,
                   val_calls, val_errors, val_recorded, val_rest>>

ValNext == ComposeVisitors \/ CallTypeInfo \/ CallRule \/ ReturnResult

SpecValidate == ValInit /\ [][ValNext]_vars

(***************************************************************************)
(* lang/ast.py: Node.__eq__ and Node.to_dict                               *)
(***************************************************************************)

\* __slots__ of the classes of the nodes compared
Slots(cls) ==
    CASE cls = "Name" -> {"source", "loc", "value"}
      [] cls = "NamedType" -> {"source", "loc", "name"}
      [] cls \in {"ListType", "NonNullType"} -> {"source", "loc", "type"}
      [] cls = "Document" -> {"source", "loc", "definitions"}
      [] cls = "SelectionSet" -> {"source", "loc", "selections"}
      [] cls = "Field" ->
            {"source", "loc", "name", "alias", "arguments", "directives",
             "selection_set", "response_name"}
      [] cls = "FragmentDefinition" ->
            {"loc", "name", "variable_definitions", "type_condition",
             "directives", "selection_set"}

\* A variant of _props that yields every slot
PropsWithSource(cls) == Slots(cls)

\* Node._props()
Props(cls) == Slots(cls) \ {"source"}

\* What an attribute holds: a node, a list of nodes, or a primitive value
\* (a string, a tuple of integers)
AttrHolds(attr) ==
    CASE attr \in {"name", "type", "alias", "type_condition", "selection_set"} -> "node"
      [] attr \in {"definitions", "selections", "arguments", "directives",
                   "variable_definitions"} -> "list"
      [] OTHER -> "primitive"

\* A node: its class and the values of its slots
AstNode(cls, slots) == [cls |-> cls, slots |-> slots]

RECURSIVE NodeEq(_, _)

\* getattr(self, attr) == getattr(rhs, attr)
AttrEq(attr, x, y) ==
    CASE AttrHolds(attr) = "node" -> NodeEq(x, y)
      [] AttrHolds(attr) = "list" ->
            /\ Len(x) = Len(y)
            /\ \A i \in 1..Len(x) : NodeEq(x[i], y[i])
      [] OTHER -> x = y

\* Node.__eq__(self, rhs)
NodeEq(self, rhs) ==
    /\ rhs.cls = self.cls
    /\ \A attr \in Props(self.cls) : AttrEq(attr, self.slots[attr], rhs.slots[attr])

RECURSIVE NodeToDict(_)

\* _node_to_dict(getattr(node, attr))
AttrToDict(attr, x) ==
    CASE AttrHolds(attr) = "node" -> NodeToDict(x)
      [] AttrHolds(attr) = "list" -> [i \in 1..Len(x) |-> NodeToDict(x[i])]
      [] OTHER -> x

\* _node_to_dict(node) of a Node: a dict, held as the function of its keys
NodeToDict(node) ==
    [key \in Props(node.cls) \cup {"__kind__"} |->
        IF key = "__kind__" THEN node.cls ELSE AttrToDict(key, node.slots[key])]

\* The nodes compared: names, named types, list and non-null types of up to
\* MaxNesting wrappers, documents of up to two definitions
Sources == {"query.graphql", "other.graphql"}

NameNodes ==
    {AstNode("Name", [source |-> s, loc |-> l, value |-> v]) :
        s \in Sources, l \in {<<0, 1>>, <<0, 2>>}, v \in {"a", "b"}}

NamedTypeNodes ==
    {AstNode("NamedType", [source |-> s, loc |-> <<0, 1>>, name |-> n]) :
        s \in Sources, n \in NameNodes}

RECURSIVE TypeNodes(_)
TypeNodes(nesting) ==
    IF nesting = 0 THEN NamedTypeNodes
    ELSE {AstNode(c, [source |-> s, loc |-> <<0, 1>>, type |-> t]) :
            c \in {"ListType", "NonNullType"}, s \in Sources,
            t \in TypeNodes(nesting - 1)}

DocumentNodes ==
    {AstNode("Document", [source |-> s, loc |-> <<0, 1>>, definitions |-> d]) :
        s \in Sources, d \in UNION {[1..n -> NameNodes] : n \in 0..2}}

AstNodes ==
    NameNodes \cup DocumentNodes \cup UNION {TypeNodes(n) : n \in 0..MaxNesting}

AstInit ==
    /\ AstRestIdle
    /\ ast_a \in AstNodes
    /\ ast_b \in AstNodes
    /\ ast_pc = "start"
    /\ ast_eq = FALSE
    /\ ast_dicts = <<>>

\* a == b
CompareNodes ==
    /\ ast_pc = "start"
    /\ ast_eq' = NodeEq(ast_a, ast_b)
    /\ ast_pc' = "compared"
    /\ UNCHANGED <<ast_a, ast_b, ast_dicts, ast_rest>>

\* a.to_dict(), b.to_dict()
ConvertNodes ==
    /\ ast_pc = "compared"
    /\ ast_dicts' = <<NodeToDict(ast_a), NodeToDict(ast_b)>>
    /\ ast_pc' = "done"
    /\ UNCHANGED <<ast_a, ast_b, ast_eq, ast_rest>>

AstNext == CompareNodes \/ ConvertNodes

SpecAst == AstInit /\ [][AstNext]_vars

\* The parameters of __init__ of the classes of the nodes copied
InitParameters(cls) ==
    CASE cls = "Name" -> {"value", "source", "loc"}
      [] cls = "NamedType" -> {"name", "source", "loc"}
      [] cls \in {"ListType", "NonNullType"} -> {"type", "source", "loc"}
      [] cls = "Document" -> {"definitions", "source", "loc"}
      [] cls = "SelectionSet" -> {"selections", "source", "loc"}
      [] cls = "Field" ->
            {"name", "alias", "arguments", "directives", "selection_set",
             "source", "loc"}
      [] cls = "FragmentDefinition" ->
            {"name", "type_condition", "selection_set", "variable_definitions",
             "directives", "source", "loc"}

\* cls(**kwargs): TypeError for a keyword __init__ does not take. __init__
\* sets one attribute per parameter, None for source when it is not given,
\* and Field.__init__ sets response_name from the alias or the name.
Construct(cls, kwargs) ==
    IF ~(DOMAIN kwargs \subseteq InitParameters(cls)) THEN TiRaise("TypeError")
    ELSE AstNode(cls,
            [attr \in InitParameters(cls) \cup (Slots(cls) \ {"source"}) |->
                IF attr \in DOMAIN kwargs THEN kwargs[attr]
                ELSE IF attr = "response_name"
                    THEN (IF kwargs["alias"] # TiNone
                          THEN kwargs["alias"].slots["value"]
                          ELSE kwargs["name"].slots["value"])
                ELSE "None"])

\* The nodes copied: those compared above, fields and fragment definitions
FieldNodes ==
    {Construct("Field",
               [name |-> n, alias |-> a, arguments |-> <<>>, directives |-> <<>>,
                selection_set |-> TiNone, source |-> s, loc |-> <<0, 1>>]) :
        n \in NameNodes, a \in {TiNone} \cup NameNodes, s \in Sources}

FragmentDefinitionNodes ==
    {Construct("FragmentDefinition",
               [name |-> n, type_condition |-> t,
                selection_set |->
                    Construct("SelectionSet",
                              [selections |-> <<>>, source |-> s, loc |-> <<0, 1>>]),
                variable_definitions |-> <<>>, directives |-> <<>>,
                source |-> s, loc |-> <<0, 1>>]) :
        n \in NameNodes, t \in NamedTypeNodes, s \in Sources}

CopyNodes == AstNodes \cup FieldNodes \cup FragmentDefinitionNodes

CopyInit ==
    /\ AstRestIdle
    /\ ast_a \in CopyNodes
    /\ ast_b = <<>>
    /\ ast_pc = "new"
    /\ ast_eq = FALSE
    /\ ast_dicts = <<>>

\* The keyword arguments __copy__ and __deepcopy__ build from __slots__.
\* Nodes are values here: the deep copy of an attribute is the same value.
SlotValues(node) == [k \in Slots(node.cls) |-> node.slots[k]]

\* copy.copy(n): Node.__copy__
Copy ==
    /\ ast_pc = "new"
    /\ ast_b' = Construct(ast_a.cls, SlotValues(ast_a))
    /\ ast_pc' = "copied"
    /\ UNCHANGED <<ast_a, ast_eq, ast_dicts, ast_rest>>

\* copy.deepcopy(n): Node.__deepcopy__
DeepCopy ==
    /\ ast_pc = "new"
    /\ ast_b' = Construct(ast_a.cls, SlotValues(ast_a))
    /\ ast_pc' = "deepcopied"
    /\ UNCHANGED <<ast_a, ast_eq, ast_dicts, ast_rest>>

CopyNext == Copy \/ DeepCopy

SpecCopy == CopyInit /\ [][CopyNext]_vars


(***************************************************************************)
(* schema/validation.py: an object type implementing an interface          *)
(***************************************************************************)

\* The classes of the named types of the schemas validated
SvKinds ==
    ("String" :> "Scalar") @@ ("Int" :> "Scalar") @@ ("Obj" :> "Object")
        @@ ("SomeObject" :> "Object") @@ ("IFace" :> "Interface")
        @@ ("SomeUnion" :> "Union")

\* schema.is_possible_type(abstract, type): Obj implements IFace, SomeObject
\* is the member of SomeUnion
IsPossibleType(abstract, name) ==
    \/ abstract = "IFace" /\ name = "Obj"
    \/ abstract = "SomeUnion" /\ name = "SomeObject"

\* isinstance(t, NonNullType)
IsNonNullType(t) == t.wrap # <<>> /\ Head(t.wrap) = "N"

\* t.type of a ListType or NonNullType
WrappedType(t) == TiType(t.name, Tail(t.wrap))

RECURSIVE IsSubtypeContravariant(_, _)
\* A subtype test that lets a nullable type stand for its non-null type
IsSubtypeContravariant(type_, super_type) ==
    IF type_ = super_type THEN TRUE
    ELSE IF IsNonNullType(super_type)
        THEN IsSubtypeContravariant(type_, WrappedType(super_type))
    ELSE IF IsNonNullType(type_)
        THEN IsSubtypeContravariant(WrappedType(type_), super_type)
    ELSE IF IsListType(super_type)
        THEN /\ IsListType(type_)
             /\ IsSubtypeContravariant(WrappedType(type_), WrappedType(super_type))
    ELSE IF IsListType(type_) THEN FALSE
    ELSE /\ SvKinds[super_type.name] \in {"Interface", "Union"}
         /\ SvKinds[type_.name] = "Object"
         /\ IsPossibleType(super_type.name, type_.name)

RECURSIVE IsSubtype(_, _)
\* Rule (b): type_ is equal to super_type or a covariant subtype of it
IsSubtype(type_, super_type) ==
    IF type_ = super_type THEN TRUE
    ELSE IF IsNonNullType(super_type)
        THEN /\ IsNonNullType(type_)
             /\ IsSubtype(WrappedType(type_), WrappedType(super_type))
    ELSE IF IsNonNullType(type_)
        THEN IsSubtype(WrappedType(type_), super_type)
    ELSE IF IsListType(super_type)
        THEN /\ IsListType(type_)
             /\ IsSubtype(WrappedType(type_), WrappedType(super_type))
    ELSE IF IsListType(type_) THEN FALSE
    ELSE /\ SvKinds[super_type.name] \in {"Interface", "Union"}
         /\ SvKinds[type_.name] = "Object"
         /\ IsPossibleType(super_type.name, type_.name)

\* The arguments of a field, by position, that meet a test
ArgumentsNamed(field, name) ==
    {i \in 1..Len(field.arguments) : field.arguments[i].name = name}

\* Rules (a) to (d) for one interface field, in this order: the rule that
\* fails first, or "none"
ValidateImplementation(schema) ==
    LET iface_field == schema.iface_field
        found == {i \in 1..Len(schema.fields) :
                    schema.fields[i].name = iface_field.name}
    IN  IF found = {} THEN "not implemented"
        ELSE
            LET object_field == schema.fields[CHOOSE i \in found : TRUE]
            IN  IF ~IsSubtype(object_field.type, iface_field.type)
                    THEN "expects type"
                ELSE IF \E i \in 1..Len(iface_field.arguments) :
                            ArgumentsNamed(object_field, iface_field.arguments[i].name) = {}
                    THEN "argument not provided"
                ELSE IF \E i \in 1..Len(iface_field.arguments) :
                            \E j \in ArgumentsNamed(object_field, iface_field.arguments[i].name) :
                                object_field.arguments[j].type # iface_field.arguments[i].type
                    THEN "argument expects type"
                ELSE IF \E j \in 1..Len(object_field.arguments) :
                            /\ ArgumentsNamed(iface_field, object_field.arguments[j].name) = {}
                            /\ IsNonNullType(object_field.arguments[j].type)
                    THEN "argument of required type"
                ELSE "none"

\* The modifiers of a type, outermost first: no NonNull of a NonNull
RECURSIVE Modifiers(_)
Modifiers(n) ==
    IF n = 0 THEN {<<>>}
    ELSE Modifiers(n - 1) \cup
         {<<p[1]>> \o p[2] :
            p \in {q \in {"N", "L"} \X Modifiers(n - 1) :
                    /\ Len(q[2]) = n - 1
                    /\ ~(q[1] = "N" /\ q[2] # <<>> /\ Head(q[2]) = "N")}}

\* output_types: the output types with their modifiers
SvOutputTypes ==
    {TiType(name, w) : name \in DOMAIN SvKinds, w \in Modifiers(MaxModifiers)}

\* The types of the arguments
SvArgumentTypes ==
    {TiType("String", <<>>), TiType("Int", <<>>), TiType("String", <<"N">>)}

\* The argument lists over the given names, each name at most once
RECURSIVE SvArguments(_)
SvArguments(names) ==
    IF names = <<>> THEN {<<>>}
    ELSE LET rest == SvArguments(Tail(names))
         IN  rest \cup {<<TiInputValue(Head(names), t)>> \o r :
                            t \in SvArgumentTypes, r \in rest}

\* _single_type_schema(ObjectType("Obj", [Field(...)], interfaces=[IFace]))
SingleTypeSchema(iface_field, object_field) ==
    [iface_field |-> iface_field, fields |-> <<object_field>>]

SvInit ==
    /\ SvRestIdle
    /\ \E it \in SvOutputTypes, ot \in SvOutputTypes, name \in {"f", "_f"},
          ia \in SvArguments(<<"arg">>), oa \in SvArguments(<<"arg", "extra">>) :
            sv_schema = SingleTypeSchema(TiField("f", it, ia), TiField(name, ot, oa))
    /\ sv_pc = "start"
    /\ sv_raised = "none"
    /\ sv_is_valid = FALSE

\* validate_schema(schema)
ValidateSchema ==
    /\ sv_pc = "start"
    /\ sv_raised' = ValidateImplementation(sv_schema)
    /\ sv_pc' = "validated"
    /\ UNCHANGED <<sv_schema, sv_is_valid, sv_rest>>

\* schema.is_valid
IsValid ==
    /\ sv_pc = "validated"
    /\ sv_is_valid' = (ValidateImplementation(sv_schema) = "none")
    /\ sv_pc' = "done"
    /\ UNCHANGED <<sv_schema, sv_raised, sv_rest>>

SvNext == ValidateSchema \/ IsValid

SpecSchemaValidation == SvInit /\ [][SvNext]_vars


(***************************************************************************)
(* tracers.py: TimingTracer and ApolloTracer                               *)
(***************************************************************************)

\* ResolveInfo of the fields resolved: path, parent type, field definition
ResolveInfo(path, parent_type, name, type) ==
    [path |-> path, parent_type |-> parent_type,
     field_definition |-> [name |-> name, type |-> type]]

ResolveInfos ==
    { ResolveInfo(<<"hero">>, "Query", "hero", "Character"),
      ResolveInfo(<<"hero", "name">>, "Character", "name", "String!"),
      ResolveInfo(<<"hero", "friends">>, "Character", "friends", "[Character]"),
      ResolveInfo(<<"version">>, "Query", "version", "Int") }

\* datetime.datetime.utcnow(): a reading of the clock
At(now) == [tag |-> "datetime", at |-> now]

\* FieldTiming(info)
FieldTiming(info, now) == [info |-> info, start |-> At(now), end |-> TiNone]

\* The position of a key in an OrderedDict, 0 when it is not there
IndexOf(dict, key) ==
    IF \E i \in 1..Len(dict) : dict[i].key = key
    THEN CHOOSE i \in 1..Len(dict) : dict[i].key = key
    ELSE 0

\* An assignment that puts a new key first
SetItemFirst(dict, key, value) ==
    <<[key |-> key, value |-> value]>> \o dict

\* dict[key] = value on an OrderedDict: a new key goes last, a key already
\* there keeps its place
SetItem(dict, key, value) ==
    IF IndexOf(dict, key) = 0
    THEN Append(dict, [key |-> key, value |-> value])
    ELSE [dict EXCEPT ![IndexOf(dict, key)].value = value]

\* _ns(start, end)
Ns(start, end) == end.at - start.at

TrInit ==
    /\ TrRestIdle
    /\ tr_pc = "new"
    /\ tr_now = 0
    /\ tr_fields = <<>>
    /\ tr_start = TiNone
    /\ tr_end = TiNone
    /\ tr_calls = <<>>
    /\ tr_payload = TiNone

\* TimingTracer.on_start
OnStart ==
    /\ tr_pc = "new"
    /\ tr_start' = At(tr_now)
    /\ tr_now' = tr_now + 1
    /\ tr_pc' = "started"
    /\ UNCHANGED <<tr_fields, tr_end, tr_calls, tr_payload, tr_rest>>

\* Whether on_field_start, on_field_end was called for the path
Called(call, path) ==
    \E i \in 1..Len(tr_calls) : tr_calls[i] = [call |-> call, path |-> path]

\* TimingTracer.on_field_start(info), for a field not started before
OnFieldStart(info) ==
    /\ tr_pc = "started"
    /\ Len(tr_fields) < MaxFields
    /\ ~Called("on_field_start", info.path)
    /\ tr_fields' = SetItem(tr_fields, info.path, FieldTiming(info, tr_now))
    /\ tr_now' = tr_now + 1
    /\ tr_calls' = Append(tr_calls, [call |-> "on_field_start", path |-> info.path])
    /\ UNCHANGED <<tr_pc, tr_start, tr_end, tr_payload, tr_rest>>

\* TimingTracer.on_field_end(info), for a field started and not ended yet
OnFieldEnd(info) ==
    /\ tr_pc = "started"
    /\ Called("on_field_start", info.path)
    /\ ~Called("on_field_end", info.path)
    /\ tr_fields' =
          [tr_fields EXCEPT ![IndexOf(tr_fields, info.path)].value.end = At(tr_now)]
    /\ tr_now' = tr_now + 1
    /\ tr_calls' = Append(tr_calls, [call |-> "on_field_end", path |-> info.path])
    /\ UNCHANGED <<tr_pc, tr_start, tr_end, tr_payload, tr_rest>>

\* TimingTracer.on_end, once every field started has ended
OnEnd ==
    /\ tr_pc = "started"
    /\ \A i \in 1..Len(tr_fields) : Called("on_field_end", tr_fields[i].key)
    /\ tr_end' = At(tr_now)
    /\ tr_now' = tr_now + 1
    /\ tr_pc' = "ended"
    /\ UNCHANGED <<tr_fields, tr_start, tr_calls, tr_payload, tr_rest>>

\* ApolloTracer._field(field_timing)
TracedField(field_timing) ==
    [path |-> field_timing.info.path,
     parentType |-> field_timing.info.parent_type,
     fieldName |-> field_timing.info.field_definition.name,
     returnType |-> field_timing.info.field_definition.type,
     startOffset |-> Ns(tr_start, field_timing.start),
     duration |-> Ns(field_timing.start, field_timing.end)]

\* ApolloTracer.payload()
Payload ==
    /\ tr_pc = "ended"
    /\ tr_payload' =
          [version |-> 1,
           startTime |-> tr_start.at,
           endTime |-> tr_end.at,
           duration |-> Ns(tr_start, tr_end),
           execution |->
              IF tr_fields # <<>>
              THEN [resolvers |->
                      [i \in 1..Len(tr_fields) |-> TracedField(tr_fields[i].value)]]
              ELSE TiNone,
           validation |-> TiNone,
           parsing |-> TiNone]
    /\ tr_pc' = "done"
    /\ UNCHANGED <<tr_now, tr_fields, tr_start, tr_end, tr_calls, tr_rest>>

TrNext ==
    \/ OnStart
    \/ \E info \in ResolveInfos : OnFieldStart(info)
    \/ \E info \in ResolveInfos : OnFieldEnd(info)
    \/ OnEnd
    \/ Payload

SpecTracer == TrInit /\ [][TrNext]_vars


(***************************************************************************)
(* lang/utils.py: index_to_loc and loc_to_index                            *)
(***************************************************************************)

\* A value returned
Returned(v) == [tag |-> "return", v |-> v]

\* index_to_loc, lines 105-114: the loop from offset on and the return
\* after it
RECURSIVE IndexToLocFrom(_, _, _, _, _)
IndexToLocFrom(body, position, offset, lines, cols) ==
    IF offset = Len(body) THEN Returned(<<lines + 1, cols + 1>>)
    ELSE IF offset = position THEN Returned(<<lines + 1, cols + 1>>)
    ELSE IF body[offset + 1] = "\n"
        THEN IndexToLocFrom(body, position, offset + 1, lines + 1, 0)
    ELSE IndexToLocFrom(body, position, offset + 1, lines, cols + 1)

\* index_to_loc(body, position)
IndexToLoc(body, position) ==
    IF body = <<>> /\ position = 0 THEN Returned(<<1, 1>>)
    ELSE IF position > Len(body) THEN TiRaise("IndexError")
    ELSE IndexToLocFrom(body, position, 0, 0, 0)

\* loc_to_index, lines 145-154: the loop from index on and the raise after it
RECURSIVE LocToIndexFrom(_, _, _, _, _)
LocToIndexFrom(body, lineo, col, index, lines) ==
    IF index = Len(body) THEN TiRaise("IndexError")
    ELSE IF lines = lineo - 1
        THEN (IF Len(body) >= index + col - 1 THEN Returned(index + col - 1)
              ELSE TiRaise("IndexError"))
    ELSE LocToIndexFrom(body, lineo, col, index + 1,
                        IF body[index + 1] = "\n" THEN lines + 1 ELSE lines)

\* loc_to_index(body, loc)
LocToIndex(body, loc) ==
    IF body = <<>> /\ loc = <<1, 1>> THEN Returned(0)
    ELSE LocToIndexFrom(body, loc[1], loc[2], 0, 0)

LocInit ==
    /\ LocRestIdle
    /\ loc_body \in UNION {[1..n -> {"a", "\n"}] : n \in 0..MaxBodyLen}
    /\ loc_position \in 0..(MaxBodyLen + 1)
    /\ loc_pc = "start"
    /\ loc_loc = TiNone
    /\ loc_index = TiNone

\* loc = index_to_loc(body, position)
CallIndexToLoc ==
    /\ loc_pc = "start"
    /\ loc_loc' = IndexToLoc(loc_body, loc_position)
    /\ loc_pc' = IF IndexToLoc(loc_body, loc_position).tag = "raise"
                 THEN "raised" ELSE "located"
    /\ UNCHANGED <<loc_body, loc_position, loc_index, loc_rest>>

\* loc_to_index(body, loc)
CallLocToIndex ==
    /\ loc_pc = "located"
    /\ loc_index' = LocToIndex(loc_body, loc_loc.v)
    /\ loc_pc' = "done"
    /\ UNCHANGED <<loc_body, loc_position, loc_loc, loc_rest>>

LocNext == CallIndexToLoc \/ CallLocToIndex

SpecLocation == LocInit /\ [][LocNext]_vars

(***************************************************************************)
(* Properties of execution/middleware.py                                   *)
(***************************************************************************)

\* The callable the composition must hand to the k-th middleware of the
\* list as its next_: the middlewares after it, in list order, then func.
ExpectedNext(k) ==
    LET n == Len(middlewares)
    IN [i \in 1..(n - k + 1) |->
          IF i = n - k + 1 THEN Func
          ELSE [id |-> k + i, kind |-> middlewares[k + i],
                wrapped |-> IsGenerator(middlewares[k + i])]]

\* No middleware of the list returns without calling its next_
AllCallNext == \A i \in 1..Len(middlewares) : middlewares[i] \in {"plain", "gen"}

\* C1: the leftmost middleware is outermost. The callables are entered in
\* the order m1, m2, ..., mn, func; the next_ handed to mi is the composition
\* of m(i+1)..mn over func and the one handed to mn is func itself; with an
\* empty list apply_middlewares returns func itself. (A middleware that does
\* not call its next_ cuts the sequence short; with none, all are entered.)
C1_LeftmostIsOutermost ==
    mw_pc \in {"composed", "running", "returned"} =>
        /\ middlewares = <<>> => tail = <<Func>>
        /\ \A k \in 1..Len(calls) :
              /\ calls[k] = (IF k <= Len(middlewares) THEN k ELSE 0)
              /\ k <= Len(middlewares) => handed[k] = ExpectedNext(k)
              /\ k = Len(middlewares) => handed[k] = <<Func>>
        /\ (mw_pc = "returned" /\ AllCallNext) =>
              Len(calls) = Len(middlewares) + 1

C1_Witness ==
    /\ mw_pc = "returned"
    /\ Len(middlewares) = 3
    /\ calls = <<1, 2, 3, 0>>
    /\ handed[3] = <<Func>>

\* The middlewares of the list that are generators with a yield and whose
\* call has ended
EndedGenerators ==
    {i \in 1..Len(middlewares) : middlewares[i] = "gen" /\ outcome[i].kind # "none"}

\* C2: for every call of a generator middleware the code after its yield is
\* executed exactly once, also when the downstream resolution fails (the
\* resolver raises, or its deferred completes with a failure): never more
\* than once, and once when the call is over and the deferred has completed.
C2_AfterYieldRunsExactlyOnce ==
    /\ \A i \in 1..Len(middlewares) : after_runs[i] <= 1
    /\ (mw_pc = "returned" /\ deferred # "pending") =>
          \A i \in EndedGenerators : after_runs[i] = 1

\* C3: calling a generator middleware whose generator finishes without
\* yielding raises RuntimeError and returns no result; a generator that
\* yields is never reported this way.
C3_NoYieldRaisesRuntimeError ==
    \A i \in 1..Len(middlewares) :
        outcome[i].kind # "none" =>
            /\ middlewares[i] = "noyield" => outcome[i] = Raised("RuntimeError", i)
            /\ middlewares[i] = "gen" => outcome[i] # Raised("RuntimeError", i)

C3_Witness ==
    /\ mw_pc = "returned"
    /\ \E i \in 1..Len(middlewares) :
          /\ middlewares[i] = "noyield"
          /\ outcome[i] = Raised("RuntimeError", i)
    /\ \E i \in 1..Len(middlewares) :
          /\ middlewares[i] = "gen"
          /\ outcome[i].kind = "raised"
    /\ ret.kind = "raised"

(***************************************************************************)
(* Properties of lang/utils.py                                             *)
(***************************************************************************)

\* The lines other than the first that contain a non-whitespace character
IndentLines(lines) == {i \in 2..Len(lines) : ~IsBlank(lines[i])}

\* The number of leading whitespace characters of a line
LeadingCount(line) ==
    IF IsBlank(line) THEN Len(line)
    ELSE (CHOOSE k \in 1..Len(line) :
              /\ line[k] \notin Whitespace
              /\ \A j \in 1..(k - 1) : line[j] \in Whitespace) - 1

\* The block string value as stated: the common indent is the smallest
\* leading whitespace count over the lines of IndentLines, it is removed from
\* every line other than the first, then the leading and trailing blank
\* lines are removed and the rest joined with "\n".
StatedBlockString(raw) ==
    LET lines == LineSeparatorSplit(raw)
        counts == {LeadingCount(lines[i]) : i \in IndentLines(lines)}
        indent == IF counts = {} THEN 0
                  ELSE CHOOSE c \in counts : \A d \in counts : c <= d
        cut == [i \in 1..Len(lines) |->
                  IF i = 1 THEN lines[i]
                  ELSE SubSeq(lines[i], indent + 1, Len(lines[i]))]
        kept == {i \in 1..Len(cut) : ~IsBlank(cut[i])}
        first == CHOOSE i \in kept : \A j \in kept : i <= j
        last == CHOOSE i \in kept : \A j \in kept : j <= i
    IN IF kept = {} THEN <<>> ELSE Join(SubSeq(cut, first, last))

\* C4: parse_block_string(raw) is the stated block string value of raw.
C4_BlockStringValue ==
    bs_pc = "done" => bs_result = StatedBlockString(raw_string)

(***************************************************************************)
(* Properties of schema/_schema_from_ast.py                                *)
(***************************************************************************)

Positions == 1..Len(document)

IsTypeDefinition(d) == d.cls \in TypeDefinitionClasses
IsTypeExtension(d) == d.cls \in TypeExtensionClasses

\* Two definitions of the document that only one of may be there
HasDuplicate ==
    \E i, j \in Positions :
        /\ i < j
        /\ \/ document[i].cls = "SchemaDefinition" /\ document[j].cls = "SchemaDefinition"
           \/ /\ IsTypeDefinition(document[i]) /\ IsTypeDefinition(document[j])
              /\ document[i].name = document[j].name
           \/ /\ document[i].cls = "DirectiveDefinition"
              /\ document[j].cls = "DirectiveDefinition"
              /\ document[i].name = document[j].name

\* The type extensions of the document that have the name n, in document order
ExtensionsNamed(n) ==
    LET Test(d) == IsTypeExtension(d) /\ d.name = n
    IN SelectSeq(document, Test)

\* The first pass is over
Extracted1 == sdl_pc # "extract" \/ sdl_error # ""

\* C5: a document with more than one schema definition, two type
\* definitions of the same name or two directive definitions of the same
\* name fails with SDLError; otherwise the first pass succeeds, whatever the
\* number of type extensions of one name, and keeps them all, grouped by
\* name in document order.
C5_DuplicatesFailExtensionsGrouped ==
    Extracted1 =>
        /\ HasDuplicate => sdl_pc = "extract" /\ sdl_error = "SDLError"
        /\ ~HasDuplicate =>
              /\ sdl_pc # "extract"
              /\ \A n \in TypeNames : extension_nodes[n] = ExtensionsNamed(n)

C5_Witness ==
    /\ sdl_pc = "extract"
    /\ sdl_error = "SDLError"
    /\ \E i, j \in Positions :
          /\ i < j
          /\ IsTypeDefinition(document[i]) /\ IsTypeDefinition(document[j])
          /\ document[i].name = document[j].name
    /\ \E i \in Positions : IsTypeExtension(document[i])

\* The type definition of the name n is in the document
DefinedType(n) == \E i \in Positions : IsTypeDefinition(document[i]) /\ document[i].name = n

\* The operation types the schema definition of the document declares
DeclaredOperationTypes ==
    document[CHOOSE i \in Positions : document[i].cls = "SchemaDefinition"].operation_types

HasSchemaDefinition == \E i \in Positions : document[i].cls = "SchemaDefinition"

\* The type built under the name n, NoType when there is none
TypeBuilt(n) == IF \E i \in 1..Len(types) : types[i].name = n
                THEN types[CHOOSE i \in 1..Len(types) : types[i].name = n]
                ELSE NoType

DefaultRootNames == [query |-> "Query", mutation |-> "Mutation",
                     subscription |-> "Subscription"]

\* _operation_types has run: it returned or raised
OperationTypesRan ==
    sdl_pc \in {"resolvers", "done"} \/ (sdl_pc = "operation_types" /\ sdl_error # "")

\* C6: with no schema definition each operation slot is the type defined
\* under Query / Mutation / Subscription, empty when there is none; with a
\* schema definition, an operation declared twice or a type the document
\* does not define give SDLError, otherwise each slot holds exactly the
\* declared type and an undeclared operation stays empty, also when a type
\* named Query, Mutation or Subscription is defined.
C6_OperationTypeSlots ==
    OperationTypesRan =>
        IF ~HasSchemaDefinition
        THEN /\ sdl_error = ""
             /\ \A k \in Operations :
                   operation_types[k] =
                      (IF DefinedType(DefaultRootNames[k])
                       THEN TypeBuilt(DefaultRootNames[k]) ELSE NoType)
        ELSE LET ops == DeclaredOperationTypes
                 Twice == \E i, j \in 1..Len(ops) :
                             i < j /\ ops[i].operation = ops[j].operation
                 Undefined == \E i \in 1..Len(ops) : ~DefinedType(ops[i].type)
             IN IF Twice \/ Undefined THEN sdl_error = "SDLError"
                ELSE /\ sdl_error = ""
                     /\ \A k \in Operations :
                           operation_types[k] =
                              (IF \E i \in 1..Len(ops) : ops[i].operation = k
                               THEN TypeBuilt(ops[CHOOSE i \in 1..Len(ops) :
                                                     ops[i].operation = k].type)
                               ELSE NoType)

C6_Witness ==
    /\ sdl_pc = "done"
    /\ HasSchemaDefinition
    /\ DefinedType("Query")
    /\ operation_types["mutation"].name = "Query"
    /\ operation_types["mutation"].kind = "ObjectType"
    /\ operation_types["query"] = NoType

\* The kind of a type definition or type extension class
KindOf(cls) ==
    CASE cls \in {"ScalarTypeDefinition", "ScalarTypeExtension"} -> "Scalar"
      [] cls \in {"ObjectTypeDefinition", "ObjectTypeExtension"} -> "Object"
      [] cls \in {"InterfaceTypeDefinition", "InterfaceTypeExtension"} -> "Interface"
      [] cls \in {"UnionTypeDefinition", "UnionTypeExtension"} -> "Union"
      [] cls \in {"EnumTypeDefinition", "EnumTypeExtension"} -> "Enum"
      [] cls \in {"InputObjectTypeDefinition", "InputObjectTypeExtension"} -> "InputObject"

\* A type definition and a type extension of its name and of another kind
HasMismatchedExtension ==
    \E i, j \in Positions :
        /\ IsTypeDefinition(document[i]) /\ IsTypeExtension(document[j])
        /\ document[i].name = document[j].name
        /\ KindOf(document[i].cls) # KindOf(document[j].cls)

\* schema_from_ast is over: it returned or raised
Over == sdl_pc = "done" \/ sdl_error # ""

\* C7: a type definition of any kind with a type extension of the same name
\* and another kind makes schema_from_ast fail with SDLError.
C7_MismatchedExtensionFails ==
    (Over /\ HasMismatchedExtension) => sdl_error = "SDLError"

\* The names a node refers to
References(d) ==
    {d.fields[i].type : i \in 1..Len(d.fields)}
        \cup {d.interfaces[i] : i \in 1..Len(d.interfaces)}
        \cup {d.types[i] : i \in 1..Len(d.types)}

\* A document that has nothing wrong but, maybe, its extensions: no
\* duplicate, every type it names is defined, and every type extension is
\* of the class extcls and extends a definition of the class defcls.
ExtendsOnly(defcls, extcls) ==
    /\ ~HasDuplicate
    /\ \A i \in Positions : \A r \in References(document[i]) :
          r \in SpecifiedScalarTypes \/ DefinedType(r)
    /\ \E i \in Positions : document[i].cls = extcls
    /\ \A i \in Positions :
          IsTypeExtension(document[i]) =>
              /\ document[i].cls = extcls
              /\ \E j \in Positions :
                    document[j].cls = defcls /\ document[j].name = document[i].name

\* builder() has run: it returned or raised
TypesBuilt ==
    sdl_pc \in {"directives", "operation_types", "resolvers", "done"}
        \/ (sdl_pc = "build" /\ sdl_error # "")

\* The names of the fields, and of the references, of a list
NamesOf(seq) == [i \in 1..Len(seq) |-> seq[i].name]

\* attr of every node of a list, one after the other
RECURSIVE Concat(_)
Concat(seqs) == IF seqs = <<>> THEN <<>> ELSE Head(seqs) \o Concat(Tail(seqs))

ExtensionFields(n) == Concat([i \in 1..Len(ExtensionsNamed(n)) |->
                                 NamesOf(ExtensionsNamed(n)[i].fields)])
ExtensionInterfaces(n) == Concat([i \in 1..Len(ExtensionsNamed(n)) |->
                                     ExtensionsNamed(n)[i].interfaces])
ExtensionValues(n) == Concat([i \in 1..Len(ExtensionsNamed(n)) |->
                                 ExtensionsNamed(n)[i].values])

\* C8: a document with an object type definition and ObjectTypeExtensions
\* of its name builds, and the ObjectType has the fields of the definition
\* followed by those of each extension in document order, and the interfaces
\* of the definition followed by those of the extensions, also when an
\* extension declares no interfaces.
C8_ObjectTypeExtended ==
    (TypesBuilt /\ ExtendsOnly("ObjectTypeDefinition", "ObjectTypeExtension")) =>
        /\ sdl_error = ""
        /\ \A i \in Positions :
              document[i].cls = "ObjectTypeDefinition" =>
                 LET d == document[i]
                     t == TypeBuilt(d.name)
                 IN /\ t.kind = "ObjectType"
                    /\ NamesOf(t.fields) = NamesOf(d.fields) \o ExtensionFields(d.name)
                    /\ NamesOf(t.interfaces) = d.interfaces \o ExtensionInterfaces(d.name)

\* C9: a document with an enum type definition and an EnumTypeExtension of
\* its name builds, and the EnumType has the values of the definition
\* followed by those of the extension; an extension of an enum that is not
\* an EnumTypeExtension is refused with SDLError.
C9_EnumTypeExtended ==
    /\ (TypesBuilt /\ ExtendsOnly("EnumTypeDefinition", "EnumTypeExtension")) =>
          /\ sdl_error = ""
          /\ \A i \in Positions :
                document[i].cls = "EnumTypeDefinition" =>
                   LET d == document[i]
                       t == TypeBuilt(d.name)
                   IN /\ t.kind = "EnumType"
                      /\ t.values = d.values \o ExtensionValues(d.name)
    /\ (TypesBuilt /\ ~HasDuplicate
            /\ \E i, j \in Positions :
                  /\ document[i].cls = "EnumTypeDefinition"
                  /\ IsTypeExtension(document[j])
                  /\ document[j].name = document[i].name
                  /\ document[j].cls # "EnumTypeExtension") =>
          sdl_error = "SDLError"

\* C10: a document with an input object type definition and an
\* InputObjectTypeExtension of its name builds an InputObjectType that has
\* the fields of the definition followed by those of the extension.
C10_InputObjectTypeExtended ==
    (TypesBuilt /\ ExtendsOnly("InputObjectTypeDefinition", "InputObjectTypeExtension")) =>
        /\ sdl_error = ""
        /\ \A i \in Positions :
              document[i].cls = "InputObjectTypeDefinition" =>
                 LET d == document[i]
                     t == TypeBuilt(d.name)
                 IN /\ t.kind = "InputObjectType"
                    /\ NamesOf(t.fields) = NamesOf(d.fields) \o ExtensionFields(d.name)

(***************************************************************************)
(* Properties of the resolver inference of schema_from_ast                 *)
(***************************************************************************)

\* What looking a field up in `resolvers` finds: the resolver registered
\* under "TypeName.fieldName" in a mapping, the one a function returns for
\* (type_name, field_name), nothing ("") otherwise
LookedUp(type_name, field_name) ==
    IF resolvers.kind \in {"dict", "callable"}
          /\ (type_name \o "." \o field_name) \in resolvers.table
    THEN type_name \o "." \o field_name
    ELSE ""

C12_EnterLeaveMirrored ==
    [][(ti_last'.call = "leave" /\ Len(ti_open') < Len(ti_open)) =>
          /\ Depths' = ti_open[Len(ti_open)].before
          /\ ti_open' = <<>> =>
                /\ Depths' = <<0, 0, 0, 0, 0>>
                /\ directive' = TiNone
                /\ argument' = TiNone
                /\ enum_value' = TiNone]_vars

\* A field of the query type has been left: the type and the field
\* definition enter_field pushed are gone, what was there before is there
C12_Witness ==
    /\ ti_last = [call |-> "leave", kind |-> "Field"]
    /\ Len(ti_open) = 2
    /\ type_stack = <<TiType("Query", <<>>)>>
    /\ parent_type_stack = <<TiType("Query", <<>>)>>
    /\ field_stack = <<>>

\* The node whose enter was called last
Entered == ti_open[Len(ti_open)].node

\* The input type expected where the node entered last stands
ExpectedInputType == Peek(input_type_stack, 2)

RuleCalls == {p \in 1..Len(val_calls) : visitors[val_calls[p].visitor] # "TypeInfoVisitor"}

\* C14: for every node, enter(node) of the type info visitor is invoked
\* before the enter(node) of any rule visitor: when a rule is entered for a
\* node, the type info visitor has entered that node already and the node is
\* the innermost one of its state.
C14_TypeInfoEntersFirst ==
    \A p \in RuleCalls :
        val_calls[p].call = "enter" =>
            /\ \E q \in 1..(p - 1) :
                  /\ visitors[val_calls[q].visitor] = "TypeInfoVisitor"
                  /\ val_calls[q].call = "enter"
                  /\ val_calls[q].node = val_calls[p].node
            /\ val_calls[p].type_info # <<>>
            /\ val_calls[p].type_info[Len(val_calls[p].type_info)] = val_calls[p].node

\* Two rules have been entered for the inner node
C14_Witness ==
    /\ Len(validators) = 2
    /\ \E p, q \in RuleCalls :
          /\ p < q
          /\ val_calls[p].call = "enter" /\ val_calls[p].node = "Field"
          /\ val_calls[q].call = "enter" /\ val_calls[q].node = "Field"
          /\ val_calls[q].type_info = <<"Document", "Field">>

\* The errors the visitor i added, in the order it added them
RecordedBy(i) ==
    LET Test(e) == e.by = i
    IN SelectSeq(val_recorded, Test)

\* How often an error is in a list
Occurrences(e, seq) == Cardinality({p \in 1..Len(seq) : seq[p] = e})

RECURSIVE WithoutSources(_)
\* A node with the source label of the node and of all its descendants
\* blanked
WithoutSources(node) ==
    AstNode(node.cls,
            [attr \in DOMAIN node.slots |->
                CASE attr = "source" -> ""
                  [] attr \in {"name", "type"} -> WithoutSources(node.slots[attr])
                  [] attr = "definitions" ->
                        [i \in 1..Len(node.slots[attr]) |->
                            WithoutSources(node.slots[attr][i])]
                  [] OTHER -> node.slots[attr]])

RECURSIVE NoSourceKey(_, _)
\* The dict of a node has __kind__ and one entry per attribute of the node
\* other than source, and so has every dict in it
NoSourceKey(dict, node) ==
    /\ DOMAIN dict = (DOMAIN node.slots \ {"source"}) \cup {"__kind__"}
    /\ dict["__kind__"] = node.cls
    /\ \A attr \in DOMAIN node.slots \ {"source"} :
          CASE attr \in {"name", "type"} -> NoSourceKey(dict[attr], node.slots[attr])
            [] attr = "definitions" ->
                  /\ Len(dict[attr]) = Len(node.slots[attr])
                  /\ \A i \in 1..Len(dict[attr]) :
                        NoSourceKey(dict[attr][i], node.slots[attr][i])
            [] OTHER -> dict[attr] = node.slots[attr]

\* C16: the source label is metadata only. a == b exactly when a and b
\* have the same class and are equal in every attribute other than source,
\* recursively, loc included; to_dict() holds __kind__ and one entry per
\* attribute other than source, with no source key at any depth; and
\* a == b exactly when a.to_dict() == b.to_dict().
C16_SourceIsMetadataOnly ==
    ast_pc = "done" =>
        /\ ast_eq <=> (WithoutSources(ast_a) = WithoutSources(ast_b))
        /\ NoSourceKey(ast_dicts[1], ast_a)
        /\ NoSourceKey(ast_dicts[2], ast_b)
        /\ ast_eq <=> (ast_dicts[1] = ast_dicts[2])

\* Two list types that differ in their source and in the source of the
\* name they wrap, and in nothing else
C16_Witness ==
    /\ ast_pc = "done"
    /\ ast_eq
    /\ ast_a.cls = "ListType"
    /\ ast_a.slots["source"] # ast_b.slots["source"]
    /\ ast_a.slots["type"].slots["name"].slots["source"]
          # ast_b.slots["type"].slots["name"].slots["source"]
    /\ ast_dicts[1] = ast_dicts[2]

(***************************************************************************)
(* Properties of schema/validation.py                                      *)
(***************************************************************************)

\* Whether the type is non-null at each level: one entry per list level,
\* outermost first, and one for the named type
RECURSIVE NonNullLevels(_)
NonNullLevels(wrap) ==
    IF wrap = <<>> THEN <<FALSE>>
    ELSE IF Head(wrap) = "L" THEN <<FALSE>> \o NonNullLevels(Tail(wrap))
    ELSE IF Len(wrap) = 1 THEN <<TRUE>>
    ELSE <<TRUE>> \o NonNullLevels(Tail(Tail(wrap)))

\* Equal to or a covariant subtype of: the same list levels, non-null
\* wherever the interface's type is, over an equal named type, an object
\* implementing the interface type or a member of the union type
Covariant(t, s) ==
    /\ Len(NonNullLevels(t.wrap)) = Len(NonNullLevels(s.wrap))
    /\ \A i \in 1..Len(NonNullLevels(s.wrap)) :
          NonNullLevels(s.wrap)[i] => NonNullLevels(t.wrap)[i]
    /\ \/ t.name = s.name
       \/ s.name = "IFace" /\ t.name = "Obj"
       \/ s.name = "SomeUnion" /\ t.name = "SomeObject"

\* The arguments of a field as a set
ArgumentSet(field) == {field.arguments[i] : i \in 1..Len(field.arguments)}

\* The object declares the interface field with a covariant type, every
\* argument of the interface field with the same type, and only nullable
\* arguments besides
Implements(schema) ==
    \E i \in 1..Len(schema.fields) :
        LET object_field == schema.fields[i]
            iface_field == schema.iface_field
        IN  /\ object_field.name = iface_field.name
            /\ Covariant(object_field.type, iface_field.type)
            /\ ArgumentSet(iface_field) \subseteq ArgumentSet(object_field)
            /\ \A a \in ArgumentSet(object_field) \ ArgumentSet(iface_field) :
                  \/ \E b \in ArgumentSet(iface_field) : b.name = a.name
                  \/ a.type.wrap = <<>> \/ Head(a.type.wrap) # "N"

\* The schemas of tests/test_schema/test_validation.py and whether
\* validate_schema raises SchemaError on them
TestedSchemas ==
    LET S(t, w) == TiType(t, w)
        F(name, t, args) == TiField(name, t, args)
        A(name, t) == <<TiInputValue(name, t)>>
        Case(it, ia, oname, ot, oa, raises) ==
            [schema |-> SingleTypeSchema(F("f", it, ia), F(oname, ot, oa)),
             raises |-> raises]
    IN  { Case(S("String", <<>>), <<>>, "f", S("String", <<>>), <<>>, FALSE),
          Case(S("String", <<>>), <<>>, "_f", S("String", <<>>), <<>>, TRUE),
          Case(S("String", <<>>), <<>>, "f", S("Int", <<>>), <<>>, TRUE),
          Case(S("IFace", <<>>), <<>>, "f", S("Obj", <<>>), <<>>, FALSE),
          Case(S("SomeUnion", <<>>), <<>>, "f", S("SomeObject", <<>>), <<>>, FALSE),
          Case(S("String", <<>>), A("arg", S("String", <<>>)),
               "f", S("String", <<>>), <<>>, TRUE),
          Case(S("String", <<>>), A("arg", S("String", <<>>)),
               "f", S("String", <<>>), A("arg", S("Int", <<>>)), TRUE),
          Case(S("String", <<>>), <<>>,
               "f", S("String", <<>>), A("arg", S("String", <<"N">>)), TRUE),
          Case(S("String", <<>>), <<>>,
               "f", S("String", <<>>), A("arg", S("String", <<>>)), FALSE),
          Case(S("String", <<"L">>), <<>>, "f", S("String", <<"L">>), <<>>, FALSE),
          Case(S("String", <<"L">>), <<>>, "f", S("String", <<>>), <<>>, TRUE),
          Case(S("String", <<>>), <<>>, "f", S("String", <<"L">>), <<>>, TRUE),
          Case(S("String", <<>>), <<>>, "f", S("String", <<"N">>), <<>>, FALSE),
          Case(S("String", <<"N">>), <<>>, "f", S("String", <<>>), <<>>, TRUE) }

RECURSIVE StartedPaths(_)
StartedPaths(made) ==
    IF made = <<>> THEN <<>>
    ELSE IF Head(made).call = "on_field_start"
        THEN <<Head(made).path>> \o StartedPaths(Tail(made))
    ELSE StartedPaths(Tail(made))

\* The clock reading of a call: on_start read 0 and the i-th field call
\* read i
CalledAt(call, path) ==
    CHOOSE i \in 1..Len(tr_calls) : tr_calls[i] = [call |-> call, path |-> path]

\* The resolver entries of the payload, none when execution is None
Resolvers ==
    IF tr_payload.execution = TiNone THEN <<>> ELSE tr_payload.execution.resolvers

\* C18: for any interleaving of on_field_start and on_field_end calls in
\* which each field path is started once and later ended once, the payload
\* after on_end lists one resolver entry per started path, in the order of
\* the on_field_start calls, each with the path, parent type, field name
\* and return type of its own field and the start and end recorded for
\* that path.
C18_OneEntryPerFieldInStartOrder ==
    tr_pc = "done" =>
        /\ Len(Resolvers) = Len(StartedPaths(tr_calls))
        /\ \A i \in 1..Len(Resolvers) :
              LET path == StartedPaths(tr_calls)[i]
                  info == CHOOSE r \in ResolveInfos : r.path = path
              IN  /\ Resolvers[i].path = path
                  /\ Resolvers[i].parentType = info.parent_type
                  /\ Resolvers[i].fieldName = info.field_definition.name
                  /\ Resolvers[i].returnType = info.field_definition.type
                  /\ Resolvers[i].startOffset = CalledAt("on_field_start", path)
                  /\ Resolvers[i].duration =
                        CalledAt("on_field_end", path) - CalledAt("on_field_start", path)

\* Three fields resolved concurrently: the first started ends last
C18_Witness ==
    /\ tr_pc = "done"
    /\ Len(Resolvers) = 3
    /\ tr_calls[1].call = "on_field_start"
    /\ tr_calls[2].call = "on_field_start"
    /\ tr_calls[6] = [call |-> "on_field_end", path |-> tr_calls[1].path]
    /\ Resolvers[1].duration = 5

(***************************************************************************)
(* Properties of the recursion stack of _TypeMapBuilder                    *)
(***************************************************************************)

\* What build_type returned for the references of a built type: the types
\* of its fields, its interfaces and its members
BuiltReferences(t) ==
    {t.fields[i].type : i \in 1..Len(t.fields)}
        \cup {t.interfaces[i] : i \in 1..Len(t.interfaces)}
        \cup {t.types[i] : i \in 1..Len(t.types)}

\* C19: build_type returns a thunk for a named type reference exactly when
\* the definition of that name is being translated; a reference to a type
\* not built yet and not in progress is built on the spot and returned as
\* a concrete type. In the documents checked only A refers to a type the
\* document defines, so the name in progress at a reference is the name of
\* the type that holds it.
C19_ThunkOnlyForTypeInProgress ==
    (TypesBuilt /\ sdl_error = "") =>
        \A i \in 1..Len(types) :
            \A r \in BuiltReferences(types[i]) :
                (r.tag = "thunk") <=> (r.name = types[i].name)

\* C20: every name pushed on the recursion stack is popped when the
\* build_type call that pushed it returns normally, so the stack is empty
\* once the type map has been built.
C20_StackEmptyOnceBuilt ==
    (TypesBuilt /\ sdl_error = "") => builder.stack = <<>>

(***************************************************************************)
(* Properties of the field definitions of TypeInfoVisitor                  *)
(***************************************************************************)

\* The class of a parent type, "None" for null
ParentKind(parent) == IF parent = TiNone THEN "None" ELSE TiKinds[parent.name]

\* The entry of a name in the field map of a type, null when it has none
FieldMapEntry(parent, n) ==
    IF \E i \in 1..Len(TiFields(parent.name)) : TiFields(parent.name)[i].name = n
    THEN CHOOSE f \in {TiFields(parent.name)[i] : i \in 1..Len(TiFields(parent.name))} :
            f.name = n
    ELSE TiNone

\* C21: on entering a Field named n under parent type P the field
\* definition pushed is the __schema or __type meta field exactly when P is
\* the query type and n is that name, the __typename meta field when P is
\* an object, interface or union type and n is __typename, the entry for n
\* in P's field map when P is an object or interface type, and null
\* otherwise; the output type pushed is that definition's type when it is
\* an output type, else null.
C21_FieldDefinitionPushed ==
    ti_last = [call |-> "enter", kind |-> "Field"] =>
        LET parent == CurrentParentType
            n == Entered.name
            isQuery == parent = TiType("Query", <<>>)
        IN  /\ (CurrentField = SchemaIntrospectionField) <=> (isQuery /\ n = "__schema")
            /\ (CurrentField = TypeIntrospectionField) <=> (isQuery /\ n = "__type")
            /\ (ParentKind(parent) \in {"Object", "Interface", "Union"} /\ n = "__typename")
                  => CurrentField = TypeNameIntrospectionField
            /\ (ParentKind(parent) \in {"Object", "Interface"}
                    /\ n \notin {"__typename", "__schema", "__type"})
                  => CurrentField = FieldMapEntry(parent, n)
            /\ (ParentKind(parent) = "None"
                    \/ (ParentKind(parent) = "Union" /\ n # "__typename")
                    \/ (~isQuery /\ n \in {"__schema", "__type"}))
                  => CurrentField = TiNone
            /\ CurrentType =
                  (IF CurrentField # TiNone /\ IsOutputType(CurrentField.type)
                   THEN CurrentField.type ELSE TiNone)

\* __typename entered in a fragment on the union U, and below it, where
\* the parent type is null, a field that gets no definition
C21_Witness ==
    /\ ti_last = [call |-> "enter", kind |-> "Field"]
    /\ Len(ti_open) = 5
    /\ ti_open[1].node = TiNode("FragmentDefinition", "U", <<>>)
    /\ ti_open[3].node = TiNode("Field", "__typename", <<>>)
    /\ parent_type_stack = <<TiType("U", <<>>), TiNone>>
    /\ Entered.name = "s"
    /\ field_stack = <<TypeNameIntrospectionField, TiNone>>
    /\ type_stack = <<TiType("U", <<>>), TiType("String", <<"N">>), TiNone>>

(***************************************************************************)
(* Properties of the input types of TypeInfoVisitor                        *)
(***************************************************************************)

\* The item type of a list type as declared: [T] and [T]! give T with the
\* modifiers T has; any other type, and null, give null
DeclaredItemType(t) ==
    IF t = TiNone THEN TiNone
    ELSE IF t.wrap # <<>> /\ Head(t.wrap) = "L" THEN TiType(t.name, Tail(t.wrap))
    ELSE IF Len(t.wrap) >= 2 /\ t.wrap[1] = "N" /\ t.wrap[2] = "L"
        THEN TiType(t.name, Tail(Tail(t.wrap)))
    ELSE TiNone

\* C22: on entering a ListValue the input type pushed is the item type of
\* the current input type after removing an outer NonNull, exactly as
\* declared ([Int] for [[Int]], Int! for [Int!]), and null when the current
\* input type is not a list.
C22_ListItemTypeAsDeclared ==
    ti_last = [call |-> "enter", kind |-> "ListValue"] =>
        CurrentInputType = DeclaredItemType(ExpectedInputType)

(***************************************************************************)
(* Properties of generator_middleware.wrapped                              *)
(***************************************************************************)

\* What the next_ of the i-th middleware of the list returned to it: the
\* outcome of the next middleware, or of the resolver for the last one
YieldedTo(i) ==
    IF i = Len(middlewares) THEN ResolverResult(resolver) ELSE outcome[i + 1]

\* C23: when the value a generator middleware yields is a deferred, the
\* code after the yield runs only after the deferred has completed; when it
\* is not a deferred, the code after the yield has run by the time the
\* call returns; in both cases the call returns exactly the yielded value.
C23_AfterYieldWaitsForDeferred ==
    \A i \in 1..Len(middlewares) :
        middlewares[i] = "gen" =>
            /\ (deferred = "pending" /\ outcome[i].kind \in {"none", "deferred"}) =>
                  /\ after_runs[i] = 0
                  /\ \A k \in 1..Len(finished) : finished[k] # i
            /\ outcome[i].kind = "value" => after_runs[i] = 1
            /\ outcome[i].kind \in {"value", "deferred"} => outcome[i] = YieldedTo(i)

\* Two generator middlewares yielded a deferred that was pending when the
\* call returned and completed afterwards: their code after the yield ran
\* then
C23_Witness ==
    /\ mw_pc = "returned"
    /\ resolver = "pending"
    /\ deferred \in {"ok", "failed"}
    /\ middlewares = <<"gen", "plain", "gen">>
    /\ outcome[3] = Deferred
    /\ ret = Deferred
    /\ finished = <<3, 1>>

(***************************************************************************)
(* Properties of Node.__copy__ and Node.__deepcopy__                       *)
(***************************************************************************)

\* C24: for every node class and every node n of the class, copy.copy(n)
\* and copy.deepcopy(n) succeed and return a node of the same class that
\* is == to n.
C24_CopiesEqualOriginal ==
    ast_pc \in {"copied", "deepcopied"} =>
        /\ ast_b # TiRaise("TypeError")
        /\ ast_b.cls = ast_a.cls
        /\ NodeEq(ast_b, ast_a)

(***************************************************************************)
(* Properties of index_to_loc and loc_to_index                             *)
(***************************************************************************)

\* C25: index_to_loc and loc_to_index are inverse on valid offsets: for
\* every body and every offset i with 0 <= i <= len(body),
\* index_to_loc(body, i) returns a (line, column) pair and
\* loc_to_index(body, index_to_loc(body, i)) returns i, also for
\* i = len(body) and for a body that ends with a line terminator.
C25_LocRoundTrip ==
    /\ (loc_pc = "raised") => loc_position > Len(loc_body)
    /\ (loc_pc = "done") => loc_index = Returned(loc_position)

\* The directive node an argument that was just entered belongs to, if any
EnclosingDirective ==
    IF Len(ti_open) >= 2 /\ ti_open[Len(ti_open) - 1].node.kind = "Directive"
    THEN ti_open[Len(ti_open) - 1].node
    ELSE TiNone

\* C26: while an argument of a directive that the schema's directive
\* registry does not have is visited, the tracked argument definition, input
\* value definition and input type are null: an argument of a directive is
\* never resolved against the arguments of the enclosing field.
C26_UnknownDirectiveArgumentIsNull ==
    (/\ ti_last = [call |-> "enter", kind |-> "Argument"]
     /\ EnclosingDirective # TiNone
     /\ FindOne(TiDirectives, EnclosingDirective.name) = TiNone)
        => /\ argument = TiNone
           /\ Peek(input_value_def_stack, 1) = TiNone
           /\ CurrentInputType = TiNone

CurrentParentInputType ==
    IF IsKind(Peek(input_type_stack, 2), {"InputObject"})
    THEN Peek(input_type_stack, 2)
    ELSE TiNone

\* C28: while an ObjectField of an object value is visited, given for a
\* position whose type is an input object type T, plain or wrapped (T!,
\* [T], [T!]!), parent_input_type is T and input_type is the type of the
\* field of that name on T, null if T has no such field.
C28_ParentInputTypeUnwrapped ==
    (/\ ti_last = [call |-> "enter", kind |-> "ObjectField"]
     /\ IsKind(UnwrappedOrNone(ExpectedInputType), {"InputObject"}))
        => /\ CurrentParentInputType = UnwrapType(ExpectedInputType)
           /\ CurrentInputType =
                 InputTypeOfDef(FindOne(TiFields(ExpectedInputType.name), Entered.name))

(***************************************************************************)
(* Properties of the lazy references of _TypeMapBuilder                    *)
(***************************************************************************)

\* The type-building pass has just finished without error
PassFinished == sdl_pc = "directives" /\ sdl_error = ""

\* The lazy references held by the types built
LazyReferences ==
    UNION {{r \in BuiltReferences(types[i]) : r.tag = "thunk"} : i \in 1..Len(types)}

GeneratorsOnly ==
    /\ middlewares # <<>>
    /\ \A i \in 1..Len(middlewares) : middlewares[i] = "gen"
    /\ resolver # "raise"

\* g1, ..., gn and then the resolver
BeforeOrder ==
    [i \in 1..(Len(middlewares) + 1) |-> IF i <= Len(middlewares) THEN i ELSE 0]

\* gn, ..., g1
AfterOrder == [i \in 1..Len(middlewares) |-> Len(middlewares) + 1 - i]

\* s is the start of t
StartOf(s, t) == Len(s) <= Len(t) /\ s = SubSeq(t, 1, Len(s))

\* C30: with generator middlewares [g1, ..., gn] around a resolver, the
\* parts before the yield run in the order g1, ..., gn, then the resolver,
\* and the parts after the yield run in the reverse order gn, ..., g1, all
\* of them after the resolver, both when the resolver returns a plain value
\* and when it returns a deferred that every middleware yields unchanged.
C30_BeforeInOrderAfterReversed ==
    GeneratorsOnly =>
        /\ StartOf(calls, BeforeOrder)
        /\ StartOf(finished, AfterOrder)
        /\ finished # <<>> => calls = BeforeOrder
        /\ (mw_pc = "returned" /\ deferred # "pending") => finished = AfterOrder

\* Three generator middlewares around a resolver whose deferred was pending
\* when the call returned and has completed since
C30_Witness ==
    /\ GeneratorsOnly
    /\ Len(middlewares) = 3
    /\ resolver = "pending"
    /\ mw_pc = "returned"
    /\ deferred = "ok"
    /\ calls = <<1, 2, 3, 0>>
    /\ finished = <<3, 2, 1>>

\* The same around a resolver that returns a plain value
C30_WitnessPlainValue ==
    /\ GeneratorsOnly
    /\ Len(middlewares) = 3
    /\ resolver = "value"
    /\ mw_pc = "returned"
    /\ finished = <<3, 2, 1>>

====
